---- MODULE Spec2Model ----
(***************************************************************************)
(* Model of diskycache's CacheService (the configurable class with the     *)
(* index system): the in-memory Metadata Store, the four secondary         *)
(* indexes, the payload files, the batched metadata persistence and the    *)
(* asynchronous handlers, split at their file-I/O suspension points.       *)
(***************************************************************************)
EXTENDS Integers, Sequences, FiniteSets, TLC

\* ------------------------------------------------------------------ bounds
\* the clock runs from 0 to MaxTime
MaxTime == 2
\* a get is only issued on an entry read fewer than MaxAccessCount times
MaxAccessCount == 1
\* the arrays of the key data have at most MaxArrayLen elements
MaxArrayLen == 2

\* ------------------------------------------------- scaled program constants
\* one calendar day, in clock ticks (UNIT_CONSTANTS.TIME.d)
DayLen == 1
\* cutoffDateRecalcIntervalMs, in clock ticks
CutoffDateRecalcInterval == 1
\* metadataSaveDelayMs, in clock ticks
MetadataSaveDelay == 1
\* findKeyBatchSize and findAllKeysBatchSize, in candidates
FindKeyBatchSize == 1
FindAllKeysBatchSize == 2
\* the configured maximum cache size in bytes and maximum age in days
DefaultMaxSizeBytes == 2
DefaultMaxCacheAge == 1
\* the configured limit on the size of key data (maxCacheKeySize), in characters
CacheKeyLimitBytes == 9

\* ------------------------------------------------------------ value domains
\* cache keys stand for the SHA-256 digests returned by generateCacheKey
Keys == {"k1", "k2", "k3"}
SeqKeys == {"k1", "k2"}
LruPayloads == {<<1, "a">>, <<2, "a">>}
SameSizePayloads == {<<1, "a">>, <<1, "b">>}
\* a payload is <<byte length, content>>
Payloads == {<<1, "a">>, <<2, "a">>, <<3, "a">>}
ConcKeys == {"k1"}
ConcPayloads == {<<1, "a">>, <<2, "a">>}
SaveKeys == {"k1"}
SavePayloads == {<<1, "a">>, <<2, "a">>}
HealPayloads == {<<1, "a">>}
Slots == 1 .. 2
TimerIds == {1, 2, 3}
ObjIds == 1 .. (Cardinality(Keys) * (1 + Cardinality(Slots)))

NoPayload == <<0, "ENOENT">>
NoHash == <<"", 0, "">>
NoDate == -1000
NullObj == [key |-> "", createdAt |-> 0, lastAccessed |-> 0, dataSize |-> 0, accessCount |-> 0]
EmptyIndex == [b \in {} |-> {}]

FirstKey == CHOOSE k \in Keys : TRUE

NotRecovered == [on |-> FALSE, from |-> "", since |-> 0, keys |-> {}]

UserKinds == {"set", "get", "exists", "deleteKey", "cleanup", "enforce", "destroy", "clearAll",
              "init", "findKey", "findAll"}

\* a file of serialized metadata: absent, opened for writing but not yet written, or complete
Absent == [state |-> "absent", content |-> <<>>]
Torn == [state |-> "torn", content |-> <<>>]
Written(c) == [state |-> "ok", content |-> c]

VARIABLES
    now,                \* the wall clock (Date.now())
    maxSizeBytes,       \* this.maxSizeBytes
    maxCacheAge,        \* this.maxCacheAge (days)
    cachedCutoffDate,   \* this.cachedCutoffDate
    metadata,           \* this.metadata: the Map in insertion order, key -> object reference
    objs,               \* the CacheMetaData objects the Map and the handlers refer to
    contentHashCache,   \* this.contentHashCache
    contentHashIndex,   \* this.contentHashIndex
    sizeIndex,          \* this.sizeIndex
    dateIndex,          \* this.dateIndex
    accessCountIndex,   \* this.accessCountIndex
    files,              \* the payload files {key}.{extension} of the cache directory
    birthtime,          \* the creation time (stats.birthtime) of each payload file
    snapshot,           \* the file metadata.json
    tmpFiles,           \* the files metadata.json.tmp.<timestamp>
    metadataSaveTimer,  \* this.metadataSaveTimer
    armed,              \* the timers of setTimeout that have neither fired nor been cleared
    procs,              \* the handlers in flight, one per slot, with their position and locals
    ret,                \* the handler that has just returned, with its result; stale tells
                        \* that the object a get held was no longer the one in the Map
    expected,           \* history: the payload last committed by set for a key still stored
    recovered,          \* history: the instance was constructed over an absent or unparsable
                        \* snapshot, and the keys set in it since
    destroyed,          \* destroy() has returned
    crashed,            \* the process was killed
    call                \* two key data values and the cache keys generateCacheKey gave them

vars == <<now, maxSizeBytes, maxCacheAge, cachedCutoffDate, metadata, objs, contentHashCache,
          contentHashIndex, sizeIndex, dateIndex, accessCountIndex, files, birthtime, snapshot,
          tmpFiles, metadataSaveTimer, armed, procs, ret, expected, recovered, destroyed, crashed,
          call>>

\* ------------------------------------------------------------ pure helpers
ByteLength(p) == p[1]

ContentHash(p) == <<"sha256", p[1], p[2]>>

DateKey(createdAt) == createdAt \div DayLen

Has(m, k) == \E i \in 1 .. Len(m) : m[i].key = k

RefOf(m, k) == IF Has(m, k) THEN m[CHOOSE i \in 1 .. Len(m) : m[i].key = k].obj ELSE 0

PosOf(m, k) == CHOOSE i \in 1 .. Len(m) : m[i].key = k

MapSet(m, k, o) ==
    IF Has(m, k)
    THEN [i \in 1 .. Len(m) |-> IF m[i].key = k THEN [key |-> k, obj |-> o] ELSE m[i]]
    ELSE Append(m, [key |-> k, obj |-> o])

MapDelete(m, k) == SelectSeq(m, LAMBDA e : e.key # k)

MapKeys(m) == {m[i].key : i \in 1 .. Len(m)}

RECURSIVE SumSizes(_, _)
SumSizes(m, os) ==
    IF m = <<>> THEN 0 ELSE os[Head(m).obj].dataSize + SumSizes(Tail(m), os)

IndexAdd(idx, b, k) ==
    IF b \in DOMAIN idx THEN [idx EXCEPT ![b] = @ \cup {k}] ELSE idx @@ (b :> {k})

IndexRemove(idx, b, k) ==
    IF b \in DOMAIN idx
    THEN IF idx[b] \ {k} = {}
         THEN [x \in DOMAIN idx \ {b} |-> idx[x]]
         ELSE [idx EXCEPT ![b] = @ \ {k}]
    ELSE idx

IndexGet(idx, b) == IF b \in DOMAIN idx THEN idx[b] ELSE {}

\* the elements of a set of keys, as a sequence
RECURSIVE KeysInSet(_)
KeysInSet(S) ==
    IF S = {} THEN <<>> ELSE LET k == CHOOSE x \in S : TRUE IN <<k>> \o KeysInSet(S \ {k})

\* stable insertion sort of [key, obj] pairs by lastAccessed ascending
RECURSIVE InsertSorted(_, _, _)
InsertSorted(e, s, os) ==
    IF s = <<>> THEN <<e>>
    ELSE IF os[e.obj].lastAccessed < os[Head(s).obj].lastAccessed
         THEN <<e>> \o s
         ELSE <<Head(s)>> \o InsertSorted(e, Tail(s), os)

RECURSIVE SortByLastAccessed(_, _)
SortByLastAccessed(m, os) ==
    IF m = <<>> THEN <<>>
    ELSE InsertSorted(m[Len(m)], SortByLastAccessed(SubSeq(m, 1, Len(m) - 1), os), os)

\* ------------------------------------------------------------ key data
\* A JavaScript value passed as key data: its type, the characters of a string, number
\* or boolean, and the elements of an array (name "") or the fields of an object in
\* insertion order. "circular" is the object o with o.self = o.
Leaf(t, cs) == [t |-> t, chars |-> cs, kids |-> <<>>]
Str(cs) == Leaf("string", cs)
Num(cs) == Leaf("number", cs)
Bool(cs) == Leaf("boolean", cs)
Null == Leaf("null", <<>>)
Undefined == Leaf("undefined", <<>>)
Circular == Leaf("circular", <<>>)
Field(n, v) == [name |-> n, val |-> v]
Arr(vs) == [t |-> "array", chars |-> <<>>, kids |-> [i \in 1 .. Len(vs) |-> Field("", vs[i])]]
Obj(fs) == [t |-> "object", chars |-> <<>>, kids |-> fs]

\* the field names of the key data, in the order of Array.prototype.sort
NameOrder == <<"a", "b">>
NameRank(n) == CHOOSE i \in 1 .. Len(NameOrder) : NameOrder[i] = n

\* Object.keys(data).sort(): the fields in ascending order of their names
RECURSIVE InsertField(_, _)
InsertField(f, fs) ==
    IF fs = <<>> THEN <<f>>
    ELSE IF NameRank(f.name) < NameRank(Head(fs).name)
         THEN <<f>> \o fs
         ELSE <<Head(fs)>> \o InsertField(f, Tail(fs))

RECURSIVE SortFields(_)
SortFields(fs) == IF fs = <<>> THEN <<>> ELSE InsertField(Head(fs), SortFields(Tail(fs)))

\* the value refers to itself
RECURSIVE HasCycle(_)
HasCycle(v) == v.t = "circular" \/ \E i \in 1 .. Len(v.kids) : HasCycle(v.kids[i].val)

\* normalizeForHashing of a value without cycles: arrays keep their order, objects are
\* rebuilt with sorted field names; the numbers of the domain are integers, which
\* toFixed followed by Number returns as they are
RECURSIVE NormalizeForHashing(_)
NormalizeForHashing(v) ==
    IF v.t = "array"
    THEN [v EXCEPT !.kids = [i \in 1 .. Len(v.kids) |->
                                Field("", NormalizeForHashing(v.kids[i].val))]]
    ELSE IF v.t = "object"
    THEN [v EXCEPT !.kids = SortFields([i \in 1 .. Len(v.kids) |->
                                Field(v.kids[i].name, NormalizeForHashing(v.kids[i].val))])]
    ELSE v

\* JSON.stringify of a value without cycles, as a sequence of characters: undefined is
\* null in an array and its field is left out of an object
RECURSIVE Stringify(_)
RECURSIVE StringifyKids(_, _, _)
StringifyKids(kids, isArray, first) ==
    IF kids = <<>> THEN <<>>
    ELSE LET f == Head(kids)
             sep == IF first THEN <<>> ELSE <<",">>
         IN  IF isArray
             THEN sep \o (IF f.val.t = "undefined" THEN <<"n", "u", "l", "l">> ELSE Stringify(f.val))
                      \o StringifyKids(Tail(kids), isArray, FALSE)
             ELSE IF f.val.t = "undefined"
                  THEN StringifyKids(Tail(kids), isArray, first)
                  ELSE sep \o <<"\"", f.name, "\"", ":">> \o Stringify(f.val)
                           \o StringifyKids(Tail(kids), isArray, FALSE)

Stringify(v) ==
    CASE v.t = "string" -> <<"\"">> \o v.chars \o <<"\"">>
      [] v.t \in {"number", "boolean"} -> v.chars
      [] v.t = "null" -> <<"n", "u", "l", "l">>
      [] v.t = "array" -> <<"[">> \o StringifyKids(v.kids, TRUE, TRUE) \o <<"]">>
      [] v.t = "object" -> <<"{">> \o StringifyKids(v.kids, FALSE, TRUE) \o <<"}">>

\* String.prototype.trim
RECURSIVE TrimStart(_)
TrimStart(cs) == IF cs # <<>> /\ Head(cs) = " " THEN TrimStart(Tail(cs)) ELSE cs

RECURSIVE TrimEnd(_)
TrimEnd(cs) ==
    IF cs # <<>> /\ cs[Len(cs)] = " " THEN TrimEnd(SubSeq(cs, 1, Len(cs) - 1)) ELSE cs

Trim(cs) == TrimEnd(TrimStart(cs))

\* the SHA-256 digest of a text stands for the text: no two texts share a digest
Sha256(cs) == <<"sha256">> \o cs

\* generateCacheKey: the digest of a trimmed string or of the serialized normal form; the
\* normalization of a value with a cycle recurses until the stack overflows
GenerateCacheKey(data) ==
    IF data.t = "string"
    THEN Sha256(Trim(data.chars))
    ELSE IF HasCycle(data)
         THEN <<"RangeError">>
         ELSE Sha256(Stringify(NormalizeForHashing(data)))

\* estimateSizeInBytes: the length of JSON.stringify(data); JSON.stringify throws on a
\* cycle and the error is replaced
EstimateSizeInBytes(data) ==
    IF HasCycle(data)
    THEN [thrown |-> "circular", size |-> 0]
    ELSE [thrown |-> "none", size |-> Len(Stringify(data))]

\* a check that rejects key data whose size equals the limit
Mut_ValidateCacheKeySize(data) ==
    LET e == EstimateSizeInBytes(data)
    IN  IF e.thrown # "none" THEN e.thrown
        ELSE IF e.size >= CacheKeyLimitBytes THEN "size" ELSE "none"

\* validateCacheKeySize: the error it throws, "none" when it returns
ValidateCacheKeySize(data) ==
    LET e == EstimateSizeInBytes(data)
    IN  IF e.thrown # "none" THEN e.thrown
        ELSE IF e.size > CacheKeyLimitBytes THEN "size" ELSE "none"

\* the key data the functions are applied to: strings, and arrays and objects of
\* strings, numbers, booleans, null and undefined, nested once
Leaves == {Str(<<"x">>), Num(<<"1">>), Bool(<<"t", "r", "u", "e">>), Null, Undefined}
Markers == {Null, Undefined, Str(<<"x">>)}
FieldOrders == {<<>>, <<"a">>, <<"b">>, <<"a", "b">>, <<"b", "a">>}
ArraysOf(V) == UNION {{Arr(vs) : vs \in [1 .. n -> V]} : n \in 0 .. MaxArrayLen}
ObjectsOf(V, orders) ==
    UNION {{Obj([i \in 1 .. Len(ns) |-> Field(ns[i], vs[i])]) : vs \in [1 .. Len(ns) -> V]} :
              ns \in orders}
KeyValues ==
    {Str(<<"x">>), Str(<<" ", "x">>)}
        \cup ArraysOf(Leaves)
        \cup ObjectsOf(Leaves, FieldOrders)
        \cup {Obj(<<Field("a", o)>>) : o \in ObjectsOf(Markers, {<<"a", "b">>, <<"b", "a">>})}
        \cup {Arr(<<o>>) : o \in ObjectsOf(Markers, {<<"a", "b">>, <<"b", "a">>})}
        \cup {Obj(<<Field("a", v)>>) : v \in ArraysOf(Markers)}

\* the key data the handlers are called with: within the limit, at the limit, over it,
\* and circular
KeyData ==
    {Str(<<" ", "x">>), Obj(<<Field("a", Str(<<"x">>))>>),
     Obj(<<Field("b", Num(<<"1">>)), Field("a", Num(<<"1">>))>>),
     Str(<<"x", "x", "x", "x", "x", "x", "x", "x">>), Circular}

\* the cache keys of the model stand for the digests of these key data
KeyNames == <<"k1", "k2">>
NamedKeyData == <<Str(<<"x">>), Obj(<<Field("a", Str(<<"x">>))>>)>>
CacheKeyOf(data) ==
    KeyNames[CHOOSE i \in 1 .. Len(NamedKeyData) :
                GenerateCacheKey(NamedKeyData[i]) = GenerateCacheKey(data)]

NoCall == [a |-> Undefined, b |-> Undefined, keyA |-> <<>>, keyB |-> <<>>, done |-> FALSE]

\* ------------------------------------------------------------ file system
FsUnlink(fs, k) == [fs EXCEPT ![k] = NoPayload]

\* a writeFile that leaves an existing file as it is
Mut_FsWriteFile(fs, k, p) == IF fs[k] # NoPayload THEN fs ELSE [fs EXCEPT ![k] = p]

FsWriteFile(fs, k, p) == [fs EXCEPT ![k] = p]

FsReadFile(fs, k) == fs[k]

\* ------------------------------------------------------------ the state as a value
IdleProc ==
    [kind |-> "idle", pc |-> "", key |-> "", payload |-> NoPayload, ref |-> 0,
     data |-> NoPayload, entries |-> <<>>, vkey |-> "", currentSize |-> 0, removedSize |-> 0,
     removedCount |-> 0, orphanedKeys |-> <<>>, correctedEntries |-> 0, filesToClear |-> <<>>,
     matchingKeys |-> <<>>,
     cursor |-> 0, cutoff |-> 0, content |-> <<>>, tmp |-> 0, fd |-> "",
     superseded |-> FALSE, outdated |-> FALSE, overtaken |-> FALSE]

\* the result of getHealthStatus; metadataConsistency is in hundredths of a percent
NoHealth ==
    [healthy |-> FALSE, issues |-> <<>>, metadataConsistency |-> 0, filesOnDisk |-> 0,
     metadataEntries |-> 0, orphanedFiles |-> 0, corruptedMetadata |-> 0]

NoRet ==
    [kind |-> "none", key |-> "", ok |-> FALSE, data |-> NoPayload, removedCount |-> 0,
     keys |-> {}, keyData |-> Undefined, rejected |-> "none", thrown |-> "none",
     health |-> NoHealth, stale |-> FALSE, staleSave |-> FALSE]

Cur ==
    [cachedCutoffDate |-> cachedCutoffDate, metadata |-> metadata, objs |-> objs,
     contentHashCache |-> contentHashCache, contentHashIndex |-> contentHashIndex,
     sizeIndex |-> sizeIndex, dateIndex |-> dateIndex, accessCountIndex |-> accessCountIndex,
     files |-> files, birthtime |-> birthtime, snapshot |-> snapshot, tmpFiles |-> tmpFiles,
     metadataSaveTimer |-> metadataSaveTimer, armed |-> armed, procs |-> procs,
     expected |-> expected, recovered |-> recovered, destroyed |-> destroyed]

\* The references to CacheMetaData objects, in a fixed order: those of the Map in
\* insertion order, then those held by the handlers in flight.
RECURSIVE ProcRefs(_, _)
ProcRefs(ps, s) ==
    IF s > Cardinality(Slots) THEN <<>>
    ELSE <<ps[s].ref>> \o [i \in 1 .. Len(ps[s].entries) |-> ps[s].entries[i].obj]
         \o ProcRefs(ps, s + 1)

RECURSIVE Dedup(_)
Dedup(q) ==
    IF q = <<>> THEN <<>>
    ELSE LET r == Dedup(SubSeq(q, 1, Len(q) - 1))
             x == q[Len(q)]
         IN  IF x = 0 \/ \E i \in 1 .. Len(r) : r[i] = x THEN r ELSE Append(r, x)

Referenced(m) == Dedup([i \in 1 .. Len(m.metadata) |-> m.metadata[i].obj] \o ProcRefs(m.procs, 1))

\* Object identities and slot numbers carry no meaning: the objects are renumbered in
\* the order of Referenced, unreferenced objects are dropped, and the handlers in
\* flight are moved to the lowest slots.
Collect(m) ==
    LET live == Referenced(m)
        rank(o) == IF o = 0 THEN 0 ELSE CHOOSE i \in 1 .. Len(live) : live[i] = o
        busy == SelectSeq([s \in 1 .. Cardinality(Slots) |-> m.procs[s]], LAMBDA p : p.kind # "idle")
    IN  [m EXCEPT !.objs = [o \in ObjIds |-> IF o <= Len(live) THEN m.objs[live[o]] ELSE NullObj],
                  !.metadata = [i \in 1 .. Len(m.metadata) |->
                                  [key |-> m.metadata[i].key, obj |-> rank(m.metadata[i].obj)]],
                  !.procs = [s \in Slots |->
                               IF s <= Len(busy)
                               THEN [busy[s] EXCEPT !.ref = rank(@),
                                                    !.entries = [i \in 1 .. Len(@) |->
                                                                   [key |-> @[i].key, obj |-> rank(@[i].obj)]]]
                               ELSE IdleProc]]

Commit(m0) ==
    \E m \in {Collect(m0)} :
        /\ cachedCutoffDate' = m.cachedCutoffDate
        /\ metadata' = m.metadata
        /\ objs' = m.objs
        /\ contentHashCache' = m.contentHashCache
        /\ contentHashIndex' = m.contentHashIndex
        /\ sizeIndex' = m.sizeIndex
        /\ dateIndex' = m.dateIndex
        /\ accessCountIndex' = m.accessCountIndex
        /\ files' = m.files
        /\ birthtime' = m.birthtime
        /\ snapshot' = m.snapshot
        /\ tmpFiles' = m.tmpFiles
        /\ metadataSaveTimer' = m.metadataSaveTimer
        /\ armed' = m.armed
        /\ procs' = m.procs
        /\ expected' = m.expected
        /\ recovered' = m.recovered
        /\ destroyed' = m.destroyed

NewObjId(m) == Len(Referenced(m)) + 1

FreeSlot == CHOOSE s \in Slots : procs[s].kind = "idle" /\ \A s2 \in Slots : procs[s2].kind = "idle" => s <= s2

UserOps == {s \in Slots : procs[s].kind \in UserKinds}

\* a handler returns: its slot is released and the result is published
Return(m, s, ok, data) ==
    [mem |-> [m EXCEPT !.procs[s] = IdleProc],
     ret |-> [NoRet EXCEPT
                !.kind = m.procs[s].kind, !.key = m.procs[s].key, !.ok = ok, !.data = data,
                !.removedCount = m.procs[s].removedCount,
                !.keys = {m.procs[s].matchingKeys[i] : i \in 1 .. Len(m.procs[s].matchingKeys)}]]

Continue(m) == [mem |-> m, ret |-> NoRet]

Apply(step) == \E r \in {step} : Commit(r.mem) /\ ret' = r.ret

\* ------------------------------------------------------------ index system
AddToIndexes(m, k, o, h) ==
    LET m1 == [m EXCEPT !.sizeIndex = IndexAdd(@, o.dataSize, k),
                        !.dateIndex = IndexAdd(@, DateKey(o.createdAt), k),
                        !.accessCountIndex = IndexAdd(@, o.accessCount, k)]
    IN  IF h # NoHash THEN [m1 EXCEPT !.contentHashIndex = IndexAdd(@, h, k)] ELSE m1

RemoveFromIndexes(m, k, o, h) ==
    LET m1 == [m EXCEPT !.sizeIndex = IndexRemove(@, o.dataSize, k),
                        !.dateIndex = IndexRemove(@, DateKey(o.createdAt), k),
                        !.accessCountIndex = IndexRemove(@, o.accessCount, k)]
    IN  IF h # NoHash THEN [m1 EXCEPT !.contentHashIndex = IndexRemove(@, h, k)] ELSE m1

FindKeysBySize(size) == IndexGet(sizeIndex, size)

FindKeysByDate(date) == IndexGet(dateIndex, date)

FindKeysByAccessCount(count) == IndexGet(accessCountIndex, count)

\* ------------------------------------------------------------ Metadata Store
\* this.metadata.delete(k); the live iterators of cleanupOldEntries move with the Map
MetadataDelete(m, k) ==
    IF ~Has(m.metadata, k) THEN m
    ELSE LET j == PosOf(m.metadata, k) IN
         [m EXCEPT !.metadata = MapDelete(@, k),
                   !.procs = [s \in Slots |->
                                IF m.procs[s].kind \in {"cleanup", "init"} /\ j <= m.procs[s].cursor
                                THEN [m.procs[s] EXCEPT !.cursor = @ - 1]
                                ELSE m.procs[s]]]

GetCutoffDate(m, t) ==
    IF m.cachedCutoffDate = NoDate \/ t - m.cachedCutoffDate > CutoffDateRecalcInterval
    THEN [m EXCEPT !.cachedCutoffDate = t - maxCacheAge * DayLen]
    ELSE m

RemoveEntry(m, k) ==
    LET m1 == [m EXCEPT !.files = FsUnlink(@, k), !.birthtime[k] = 0]
        m2 == IF Has(m.metadata, k)
              THEN RemoveFromIndexes(m1, k, m.objs[RefOf(m.metadata, k)], m.contentHashCache[k])
              ELSE m1
    IN  [MetadataDelete(m2, k) EXCEPT !.contentHashCache[k] = NoHash, !.expected[k] = NoPayload]

\* ------------------------------------------------------------ batched persistence
ArmedIds(a) == {x.id : x \in a}

ClearTimeout(a, id) == {x \in a : x.id # id}

CanSchedule(m) == TimerIds \ ArmedIds(ClearTimeout(m.armed, m.metadataSaveTimer)) # {}

ScheduleMetadataSave(m, t) ==
    LET a1 == IF m.metadataSaveTimer # 0 THEN ClearTimeout(m.armed, m.metadataSaveTimer) ELSE m.armed
        free == TimerIds \ ArmedIds(a1)
        id == CHOOSE x \in free : \A y \in free : x <= y
    IN  [m EXCEPT !.armed = a1 \cup {[id |-> id, due |-> t + MetadataSaveDelay]},
                  !.metadataSaveTimer = id]

SerializeMetadata(m, os) == [i \in 1 .. Len(m) |-> <<m[i].key, os[m[i].obj]>>]

\* the continuations that are inside saveMetadata, and those of them that have read the
\* Metadata Store and have not yet installed what they read
InSave(p) == p.pc \in {"save_unlink", "save_mkdir", "save_open", "save_write", "save_rename"}

Serialized(p) == p.pc \in {"save_unlink", "save_open", "save_write", "save_rename"}

\* save s starts: every other save in flight has started before it (superseded)
StartAfter(ps, s) ==
    [x \in Slots |-> IF x # s /\ InSave(ps[x]) THEN [ps[x] EXCEPT !.superseded = TRUE] ELSE ps[x]]

\* save s reads the Metadata Store: every save that has read it before and is still in
\* flight holds an older reading (outdated)
ReadAfter(ps, s) ==
    [x \in Slots |-> IF x # s /\ Serialized(ps[x]) THEN [ps[x] EXCEPT !.outdated = TRUE] ELSE ps[x]]

\* save s has ended: its marks are cleared
SaveEnded(p) == [p EXCEPT !.superseded = FALSE, !.outdated = FALSE, !.overtaken = FALSE]

\* save s installs what it read: when it is the save that started last and read last,
\* every other save in flight that has read the store started before it and holds a
\* reading older than the one now installed (overtaken)
Overtake(ps, s) ==
    [x \in Slots |-> IF x = s THEN SaveEnded(ps[x])
                     ELSE IF ~ps[s].superseded /\ ~ps[s].outdated /\ Serialized(ps[x])
                          THEN [ps[x] EXCEPT !.overtaken = TRUE]
                          ELSE ps[x]]

\* saveMetadata up to its first await: the unlink of an empty store's snapshot, or mkdir
SaveBegin(m, s) ==
    IF Len(m.metadata) = 0
    THEN [m EXCEPT !.procs = ReadAfter(StartAfter([@ EXCEPT ![s].pc = "save_unlink"], s), s)]
    ELSE [m EXCEPT !.procs = StartAfter([@ EXCEPT ![s].pc = "save_mkdir"], s)]

\* the for loop of cleanupOldEntries over the live Map iterator, up to its next await
CleanupLoop(m, s) ==
    LET p == m.procs[s]
        expired == {i \in (p.cursor + 1) .. Len(m.metadata) :
                       m.objs[m.metadata[i].obj].createdAt < p.cutoff}
    IN  IF expired = {}
        THEN Return(m, s, TRUE, NoPayload)
        ELSE LET i == CHOOSE x \in expired : \A y \in expired : x <= y IN
             Continue([m EXCEPT !.procs[s].cursor = i,
                                !.procs[s].removedCount = @ + 1,
                                !.procs[s].vkey = m.metadata[i].key,
                                !.procs[s].pc = "cleanup_unlink"])

\* cleanupOldEntries up to its first await removeEntry
CleanupBegin(m, s, t) ==
    LET m1 == GetCutoffDate(m, t)
    IN  CleanupLoop([m1 EXCEPT !.procs[s].cutoff = m1.cachedCutoffDate,
                               !.procs[s].cursor = 0], s)

\* what the caller of saveMetadata does once it has resolved
SaveReturn(m, s, t) ==
    CASE m.procs[s].kind = "timer" ->
            Continue([m EXCEPT !.metadataSaveTimer = 0, !.procs[s] = IdleProc])
      [] m.procs[s].kind = "destroy" ->
            Return([m EXCEPT !.destroyed = TRUE], s, TRUE, NoPayload)
      [] m.procs[s].kind = "clearAll" -> Return(m, s, TRUE, NoPayload)
      [] m.procs[s].kind = "init" -> CleanupBegin(m, s, t)
      [] OTHER -> Return(m, s, FALSE, NoPayload)

\* ------------------------------------------------------------ size enforcement
\* the loop with a break test that tolerates one byte over the limit
Mut_EnforceLoop(m, s) ==
    LET p == m.procs[s] IN
    IF p.entries = <<>> \/ p.currentSize - p.removedSize <= maxSizeBytes + 1
    THEN Return(m, s, TRUE, p.payload)
    ELSE LET v == Head(p.entries) IN
         Continue([m EXCEPT !.procs[s] =
                     [p EXCEPT !.removedSize = @ + m.objs[v.obj].dataSize,
                               !.removedCount = @ + 1,
                               !.vkey = v.key,
                               !.entries = Tail(@),
                               !.pc = "enf_unlink"]])

\* the for loop of enforceMaxCacheSize up to its next await removeEntry
EnforceLoop(m, s) ==
    LET p == m.procs[s] IN
    IF p.entries = <<>> \/ p.currentSize - p.removedSize <= maxSizeBytes
    THEN Return(m, s, TRUE, p.payload)
    ELSE LET v == Head(p.entries) IN
         Continue([m EXCEPT !.procs[s] =
                     [p EXCEPT !.removedSize = @ + m.objs[v.obj].dataSize,
                               !.removedCount = @ + 1,
                               !.vkey = v.key,
                               !.entries = Tail(@),
                               !.pc = "enf_unlink"]])

\* enforceMaxCacheSize walking the entries in Map order, without the sort
Mut_EnforceBegin(m, s) ==
    EnforceLoop([m EXCEPT !.procs[s].currentSize = SumSizes(m.metadata, m.objs),
                          !.procs[s].removedSize = 0,
                          !.procs[s].entries = m.metadata], s)

\* enforceMaxCacheSize up to its first await removeEntry
EnforceBegin(m, s) ==
    LET sorted == SortByLastAccessed(m.metadata, m.objs) IN
    EnforceLoop([m EXCEPT !.procs[s].currentSize = SumSizes(m.metadata, m.objs),
                          !.procs[s].removedSize = 0,
                          !.procs[s].entries = sorted], s)

\* ------------------------------------------------------------ handlers
\* Each handler is a chain of steps, one per stretch of code between two file-I/O
\* suspension points. A step maps the state to the next state and, when the handler
\* returns in it, to the handler's result.
Begin(m, s, kind, k) == [m EXCEPT !.procs[s] = [IdleProc EXCEPT !.kind = kind, !.key = k]]

\* set: key validation, hashing and the call of fs.writeFile
SetStartOp(m, s, k, p) ==
    Continue([Begin(m, s, "set", k) EXCEPT !.procs[s].payload = p, !.procs[s].pc = "set_write"])

\* set: fs.writeFile puts the payload on disk
SetWriteOp(m, s, t) ==
    Continue([m EXCEPT !.files = FsWriteFile(@, m.procs[s].key, m.procs[s].payload),
                       !.birthtime[m.procs[s].key] =
                           IF m.files[m.procs[s].key] = NoPayload THEN t ELSE @,
                       !.procs[s].pc = "set_commit"])

\* set after fs.writeFile: metadata, indexes, scheduled save, size enforcement
SetCommitOp(m, s, t) ==
    LET k == m.procs[s].key
        p == m.procs[s].payload
        o == NewObjId(m)
        entry == [key |-> k, createdAt |-> t, lastAccessed |-> t,
                  dataSize |-> ByteLength(p), accessCount |-> 0]
        m1 == IF Has(m.metadata, k)
              THEN RemoveFromIndexes(m, k, m.objs[RefOf(m.metadata, k)], m.contentHashCache[k])
              ELSE m
        m2 == [m1 EXCEPT !.objs[o] = entry,
                         !.metadata = MapSet(@, k, o),
                         !.contentHashCache[k] = ContentHash(p),
                         !.expected[k] = p,
                         !.recovered.keys = IF m.recovered.on THEN @ \cup {k} ELSE @]
        m3 == AddToIndexes(m2, k, entry, ContentHash(p))
    IN  EnforceBegin(ScheduleMetadataSave(m3, t), s)

\* enforceMaxCacheSize after an await removeEntry: the victim is removed, the loop goes on
EnforceUnlinkOp(m, s) == EnforceLoop(RemoveEntry(m, m.procs[s].vkey), s)

\* the public enforceMaxCacheSize
EnforceStartOp(m, s) == EnforceBegin(Begin(m, s, "enforce", ""), s)

\* get up to its first await: lookup, expiry check, the call of fs.readFile
GetStartOp(m, s, k, t) ==
    LET m0 == Begin(m, s, "get", k)
        m1 == GetCutoffDate(m0, t)
    IN  IF ~Has(m.metadata, k)
        THEN Return(m0, s, FALSE, NoPayload)
        ELSE IF m.objs[RefOf(m.metadata, k)].createdAt < m1.cachedCutoffDate
             THEN Continue([m1 EXCEPT !.procs[s].pc = "get_expired"])
             ELSE Continue([m1 EXCEPT !.procs[s].pc = "get_read",
                                      !.procs[s].ref = RefOf(m.metadata, k)])

\* get, exists: the expired entry is removed and the result is absent
ExpiredRemoveOp(m, s) == Return(RemoveEntry(m, m.procs[s].key), s, FALSE, NoPayload)

\* get: fs.readFile reads the payload file
GetReadOp(m, s) ==
    Continue([m EXCEPT !.procs[s].data = FsReadFile(m.files, m.procs[s].key),
                       !.procs[s].pc = "get_done"])

\* a bookkeeping that records that the entry has been read, not how often
Mut_Touch(o, t) == [o EXCEPT !.lastAccessed = t, !.accessCount = 1]

\* the access bookkeeping of a successful read
Touch(o, t) == [o EXCEPT !.lastAccessed = t, !.accessCount = @ + 1]

\* get after fs.readFile: access bookkeeping, or cleanup of the entry whose file is missing
GetFinishOp(m, s, t) ==
    LET k == m.procs[s].key
        r == m.procs[s].ref
    IN  IF m.procs[s].data # NoPayload
        THEN LET m1 == [m EXCEPT !.objs[r] = Touch(@, t), !.metadata = MapSet(@, k, r)]
                 done == Return(ScheduleMetadataSave(m1, t), s, TRUE, m.procs[s].data)
             IN  [done EXCEPT !.ret.stale = RefOf(m.metadata, k) # r]
        ELSE Continue(SaveBegin(MetadataDelete(m, k), s))

\* exists up to its first await: lookup, expiry check, the call of fs.access
ExistsStartOp(m, s, k, t) ==
    LET m0 == Begin(m, s, "exists", k)
        m1 == GetCutoffDate(m0, t)
    IN  IF ~Has(m.metadata, k)
        THEN Return(m0, s, FALSE, NoPayload)
        ELSE IF m.objs[RefOf(m.metadata, k)].createdAt < m1.cachedCutoffDate
             THEN Continue([m1 EXCEPT !.procs[s].pc = "exists_expired"])
             ELSE Continue([m1 EXCEPT !.procs[s].pc = "exists_access"])

\* an exists that reports the missing file and leaves the entry in the Map
Mut_ExistsFinishOp(m, s) == Return(m, s, m.files[m.procs[s].key] # NoPayload, NoPayload)

\* exists after fs.access
ExistsFinishOp(m, s) ==
    IF m.files[m.procs[s].key] # NoPayload
    THEN Return(m, s, TRUE, NoPayload)
    ELSE Continue(SaveBegin(MetadataDelete(m, m.procs[s].key), s))

\* deleteKey up to its first await
DeleteStartOp(m, s, k) ==
    Continue([Begin(m, s, "deleteKey", k) EXCEPT
                !.procs[s].pc = IF Has(m.metadata, k) THEN "del_remove" ELSE "del_access"])

\* deleteKey of a stored key: removeEntry
DeleteRemoveOp(m, s) == Return(RemoveEntry(m, m.procs[s].key), s, TRUE, NoPayload)

\* a deleteKey that leaves a file without metadata where it is
Mut_DeleteAccessOp(m, s) == Return(m, s, FALSE, NoPayload)

\* deleteKey of a key without metadata: fs.access, then fs.unlink of the orphaned file
DeleteAccessOp(m, s) ==
    IF m.files[m.procs[s].key] # NoPayload
    THEN Continue([m EXCEPT !.procs[s].pc = "del_unlink"])
    ELSE Return(m, s, FALSE, NoPayload)

DeleteUnlinkOp(m, s) ==
    Return([m EXCEPT !.files = FsUnlink(@, m.procs[s].key), !.birthtime[m.procs[s].key] = 0], s,
           m.files[m.procs[s].key] # NoPayload, NoPayload)

CleanupStartOp(m, s, t) == CleanupBegin(Begin(m, s, "cleanup", ""), s, t)

CleanupUnlinkOp(m, s) == CleanupLoop(RemoveEntry(m, m.procs[s].vkey), s)

\* the handlers that hold a file descriptor on the inode a save has just replaced or removed
Redirect(ps, from, name, to) ==
    [s \in Slots |-> IF ps[s].fd = from /\ (from = "snap" \/ ps[s].tmp = name)
                     THEN [ps[s] EXCEPT !.fd = to] ELSE ps[s]]

\* saveMetadata of an empty store: fs.unlink of the snapshot
SaveUnlinkOp(m, s, t) ==
    LET r == SaveReturn([m EXCEPT !.snapshot = Absent,
                                  !.procs = Redirect(Overtake(@, s), "snap", 0, "gone")], s, t)
    IN  [r EXCEPT !.ret.staleSave = m.procs[s].overtaken]

\* saveMetadata after fs.mkdir: serialization, temp file name, the call of fs.writeFile
SaveMkdirOp(m, s, t) ==
    Continue([m EXCEPT !.procs = ReadAfter([@ EXCEPT ![s].content = SerializeMetadata(m.metadata, m.objs),
                                                      ![s].tmp = t,
                                                      ![s].pc = "save_open"], s)])

\* fs.writeFile of the temp file: the file is created or truncated
SaveOpenOp(m, s) ==
    Continue([m EXCEPT !.tmpFiles[m.procs[s].tmp] = Torn,
                       !.procs[s].fd = "tmp",
                       !.procs[s].pc = "save_write"])

\* fs.writeFile of the temp file: the content is written through the open descriptor
SaveWriteOp(m, s) ==
    LET p == m.procs[s]
        m1 == CASE p.fd = "tmp" -> [m EXCEPT !.tmpFiles[p.tmp] = Written(p.content)]
                [] p.fd = "snap" -> [m EXCEPT !.snapshot = Written(p.content)]
                [] OTHER -> m
    IN  Continue([m1 EXCEPT !.procs[s].fd = "", !.procs[s].pc = "save_rename"])

\* fs.rename of the temp file over the snapshot; when the temp file is gone, the catch
\* block unlinks every metadata.json.tmp* file
SaveRenameOp(m, s, t) ==
    LET n == m.procs[s].tmp IN
    IF m.tmpFiles[n] # Absent
    THEN LET r == SaveReturn([m EXCEPT !.snapshot = m.tmpFiles[n],
                                       !.tmpFiles[n] = Absent,
                                       !.procs = Redirect(Redirect(Overtake(@, s), "snap", 0, "gone"),
                                                          "tmp", n, "snap")], s, t)
         IN  [r EXCEPT !.ret.staleSave = m.procs[s].overtaken]
    ELSE SaveReturn([m EXCEPT !.tmpFiles = [x \in DOMAIN @ |-> Absent],
                              !.procs = [x \in Slots |-> IF @[x].fd = "tmp"
                                                         THEN [@[x] EXCEPT !.fd = "gone"]
                                                         ELSE IF x = s THEN SaveEnded(@[x])
                                                              ELSE @[x]]], s, t)

\* the callback of the batched-save timer, up to the first await of saveMetadata
TimerFireOp(m, s, id) ==
    Continue(SaveBegin([Begin(m, s, "timer", "") EXCEPT !.armed = ClearTimeout(@, id)], s))

\* destroy, up to the first await of saveMetadata
DestroyStartOp(m, s) ==
    LET m1 == IF m.metadataSaveTimer # 0
              THEN [m EXCEPT !.armed = ClearTimeout(@, m.metadataSaveTimer), !.metadataSaveTimer = 0]
              ELSE m
    IN  Continue(SaveBegin(Begin(m1, s, "destroy", ""), s))

\* ------------------------------------------------------------ startup
\* a parser that reads the entries of a damaged file
Mut_ParseMetadata(f) == f.content

\* JSON.parse of the snapshot text: the array of [key, entry] pairs; an absent or
\* unparsable file makes loadMetadata start from an empty Map
ParseMetadata(f) == IF f.state = "ok" THEN f.content ELSE <<>>

\* the i-th object identity that no handler in flight refers to
NthFreeObj(m, i) ==
    LET used == {ProcRefs(m.procs, 1)[j] : j \in 1 .. Len(ProcRefs(m.procs, 1))}
        free == ObjIds \ used
    IN  CHOOSE o \in free : Cardinality({x \in free : x < o}) = i - 1

\* the memory of a newly constructed instance: empty Map, hash cache and indexes
Construct(m, t) ==
    [m EXCEPT !.cachedCutoffDate = NoDate,
              !.metadata = <<>>,
              !.objs = [o \in ObjIds |-> NullObj],
              !.contentHashCache = [k \in Keys |-> NoHash],
              !.contentHashIndex = EmptyIndex,
              !.sizeIndex = EmptyIndex,
              !.dateIndex = EmptyIndex,
              !.accessCountIndex = EmptyIndex,
              !.metadataSaveTimer = 0,
              !.armed = {},
              !.procs = [x \in Slots |-> IdleProc],
              !.recovered = IF m.snapshot.state = "ok" THEN NotRecovered
                            ELSE [on |-> TRUE, since |-> t, keys |-> {},
                                  from |-> IF m.snapshot = Absent THEN "absent" ELSE "unparsable"],
              !.destroyed = FALSE]

\* initializeCache up to the await of loadMetadata's fs.readFile
InitStartOp(m, s) == Continue([Begin(m, s, "init", "") EXCEPT !.procs[s].pc = "init_load"])

\* validateAndCleanMetadata after its stat loop: orphans are deleted from the Map and a
\* change is saved at once; then initializeCache goes on to cleanupOldEntries
RECURSIVE DeleteAll(_, _)
DeleteAll(m, ks) == IF ks = <<>> THEN m ELSE DeleteAll(MetadataDelete(m, Head(ks)), Tail(ks))

\* a validation that repairs the Map and leaves the snapshot as it is
Mut_ValidateFinish(m, s, t) == CleanupBegin(DeleteAll(m, m.procs[s].orphanedKeys), s, t)

ValidateFinish(m, s, t) ==
    LET p == m.procs[s]
        m1 == DeleteAll(m, p.orphanedKeys)
    IN  IF Len(p.orphanedKeys) > 0 \/ p.correctedEntries > 0
        THEN Continue(SaveBegin(m1, s))
        ELSE CleanupBegin(m1, s, t)

\* loadMetadata after fs.readFile, and validateAndCleanMetadata up to its first fs.stat
LoadOp(m, s, t) ==
    LET arr == ParseMetadata(m.snapshot)
        m1 == [m EXCEPT !.metadata = [i \in 1 .. Len(arr) |->
                                        [key |-> arr[i][1], obj |-> NthFreeObj(m, i)]],
                        !.objs = [o \in ObjIds |->
                                    IF \E i \in 1 .. Len(arr) : NthFreeObj(m, i) = o
                                    THEN arr[CHOOSE i \in 1 .. Len(arr) : NthFreeObj(m, i) = o][2]
                                    ELSE @[o]],
                        !.procs[s].cursor = 0]
    IN  IF Len(arr) = 0
        THEN CleanupBegin(m1, s, t)
        ELSE Continue([m1 EXCEPT !.procs[s].pc = "val_stat"])

\* validateAndCleanMetadata after the fs.stat of one entry: size and creation time are
\* corrected in place, a missing file marks the entry as orphaned
\* a validation that takes the timestamps of a file older than its entry
Mut_ValidateStatOp(m, s, t) ==
    LET p == m.procs[s]
        i == p.cursor + 1
        k == m.metadata[i].key
        o == m.metadata[i].obj
        e == m.objs[o]
        sizeOff == e.dataSize # ByteLength(m.files[k])
        e1 == IF sizeOff THEN [e EXCEPT !.dataSize = ByteLength(m.files[k])] ELSE e
        newer == m.birthtime[k] < e.createdAt
        e2 == IF newer THEN [e1 EXCEPT !.createdAt = m.birthtime[k],
                                       !.lastAccessed = m.birthtime[k]]
              ELSE e1
        m1 == IF m.files[k] # NoPayload
              THEN [m EXCEPT !.objs[o] = e2,
                             !.procs[s].correctedEntries =
                                 @ + (IF sizeOff THEN 1 ELSE 0) + (IF newer THEN 1 ELSE 0),
                             !.procs[s].cursor = i]
              ELSE [m EXCEPT !.procs[s].orphanedKeys = Append(@, k),
                             !.procs[s].cursor = i]
    IN  IF i > Len(m.metadata) THEN ValidateFinish(m, s, t)
        ELSE IF i = Len(m.metadata) THEN ValidateFinish(m1, s, t)
        ELSE Continue(m1)

ValidateStatOp(m, s, t) ==
    LET p == m.procs[s]
        i == p.cursor + 1
        k == m.metadata[i].key
        o == m.metadata[i].obj
        e == m.objs[o]
        sizeOff == e.dataSize # ByteLength(m.files[k])
        e1 == IF sizeOff THEN [e EXCEPT !.dataSize = ByteLength(m.files[k])] ELSE e
        newer == m.birthtime[k] > e.createdAt
        e2 == IF newer THEN [e1 EXCEPT !.createdAt = m.birthtime[k],
                                       !.lastAccessed = m.birthtime[k]]
              ELSE e1
        m1 == IF m.files[k] # NoPayload
              THEN [m EXCEPT !.objs[o] = e2,
                             !.procs[s].correctedEntries =
                                 @ + (IF sizeOff THEN 1 ELSE 0) + (IF newer THEN 1 ELSE 0),
                             !.procs[s].cursor = i]
              ELSE [m EXCEPT !.procs[s].orphanedKeys = Append(@, k),
                             !.procs[s].cursor = i]
    IN  IF i > Len(m.metadata) THEN ValidateFinish(m, s, t)
        ELSE IF i = Len(m.metadata) THEN ValidateFinish(m1, s, t)
        ELSE Continue(m1)

\* ------------------------------------------------------------ search by value
\* getContentHash: the cached hash, or the hash of the file when its length is the
\* entry's dataSize; null (NoHash) when the file is missing or of another length
GetContentHash(m, k, o) ==
    IF m.contentHashCache[k] # NoHash THEN [mem |-> m, hash |-> m.contentHashCache[k]]
    ELSE IF m.files[k] = NoPayload \/ ByteLength(m.files[k]) # m.objs[o].dataSize
         THEN [mem |-> m, hash |-> NoHash]
         ELSE [mem |-> [m EXCEPT !.contentHashCache[k] = ContentHash(m.files[k])],
               hash |-> ContentHash(m.files[k])]

\* one batch of candidates: each hash is fetched and a match is added to the content
\* hash index; the result is the memory and the matches in batch order
RECURSIVE HashBatch(_, _, _)
HashBatch(m, batch, searchHash) ==
    IF batch = <<>> THEN [mem |-> m, found |-> <<>>]
    ELSE LET r == GetContentHash(m, Head(batch).key, Head(batch).obj)
             hit == r.hash = searchHash
             m1 == IF hit
                   THEN [r.mem EXCEPT !.contentHashIndex = IndexAdd(@, searchHash, Head(batch).key)]
                   ELSE r.mem
             rest == HashBatch(m1, Tail(batch), searchHash)
         IN  [mem |-> rest.mem,
              found |-> (IF hit THEN <<Head(batch).key>> ELSE <<>>) \o rest.found]

\* the for loop of findKeyByValue and findAllKeysByValue, up to its next await Promise.all
FindLoop(m, s) ==
    LET p == m.procs[s] IN
    IF p.entries = <<>> THEN Return(m, s, p.matchingKeys # <<>>, p.payload)
    ELSE Continue([m EXCEPT !.procs[s].pc = "find_batch"])

\* findKeyByValue, findAllKeysByValue up to the first await: the index lookup, or the
\* candidates of the fallback scan; pick is the key the bucket's iterator yields first
FindStartOp(m, s, kind, p, t, pick) ==
    LET m0 == [Begin(m, s, kind, "") EXCEPT !.procs[s].payload = p]
        bucket == IndexGet(m.contentHashIndex, ContentHash(p))
        m1 == GetCutoffDate(m0, t)
        candidates == SelectSeq(m.metadata, LAMBDA e :
                         /\ ~(m.objs[e.obj].createdAt < m1.cachedCutoffDate)
                         /\ kind = "findKey" => m.objs[e.obj].dataSize <= maxSizeBytes
                         /\ m.objs[e.obj].dataSize = ByteLength(p))
    IN  IF bucket # {}
        THEN IF kind = "findKey"
             THEN Return([m0 EXCEPT !.procs[s].matchingKeys = <<pick>>], s, TRUE, p)
             ELSE Return([m0 EXCEPT !.procs[s].matchingKeys = KeysInSet(bucket)], s, TRUE, p)
        ELSE FindLoop([m1 EXCEPT !.procs[s].entries = candidates], s)

\* after await Promise.all of one batch: findKeyByValue returns its first match,
\* findAllKeysByValue collects the matches and goes on
FindBatchOp(m, s) ==
    LET p == m.procs[s]
        size == IF p.kind = "findKey" THEN FindKeyBatchSize ELSE FindAllKeysBatchSize
        n == IF Len(p.entries) < size THEN Len(p.entries) ELSE size
        r == HashBatch(m, SubSeq(p.entries, 1, n), ContentHash(p.payload))
        m1 == [r.mem EXCEPT !.procs[s].entries = SubSeq(p.entries, n + 1, Len(p.entries))]
    IN  IF p.kind = "findKey"
        THEN IF r.found # <<>>
             THEN Return([m1 EXCEPT !.procs[s].matchingKeys = <<Head(r.found)>>], s, TRUE, p.payload)
             ELSE FindLoop(m1, s)
        ELSE FindLoop([m1 EXCEPT !.procs[s].matchingKeys = @ \o r.found], s)

\* ------------------------------------------------------------ clearAll
\* clearAll up to the await of fs.readdir
ClearStartOp(m, s) ==
    LET m1 == IF m.metadataSaveTimer # 0
              THEN [m EXCEPT !.armed = ClearTimeout(@, m.metadataSaveTimer), !.metadataSaveTimer = 0]
              ELSE m
    IN  Continue([Begin(m1, s, "clearAll", "") EXCEPT !.procs[s].pc = "clear_readdir"])

RECURSIVE KeysInOrder(_, _)
KeysInOrder(S, fs) ==
    IF S = {} THEN <<>>
    ELSE LET k == CHOOSE x \in S : TRUE
         IN  (IF fs[k] # NoPayload THEN <<k>> ELSE <<>>) \o KeysInOrder(S \ {k}, fs)

\* this.metadata.clear() with the hash cache and the four indexes, then saveMetadata
ClearMaps(m, s) ==
    Continue(SaveBegin([m EXCEPT !.metadata = <<>>,
                                 !.contentHashCache = [k \in Keys |-> NoHash],
                                 !.contentHashIndex = EmptyIndex,
                                 !.sizeIndex = EmptyIndex,
                                 !.dateIndex = EmptyIndex,
                                 !.accessCountIndex = EmptyIndex,
                                 !.expected = [k \in Keys |-> NoPayload],
                                 !.procs = [x \in Slots |->
                                              IF @[x].kind \in {"cleanup", "init"}
                                              THEN [@[x] EXCEPT !.cursor = 0] ELSE @[x]]], s))

\* clearAll after fs.readdir: the payload files found are unlinked one by one
ClearReaddirOp(m, s) ==
    LET found == KeysInOrder(Keys, m.files) IN
    IF found = <<>> THEN ClearMaps(m, s)
    ELSE Continue([m EXCEPT !.procs[s].filesToClear = found, !.procs[s].pc = "clear_unlink"])

\* clearAll after one fs.unlink; an unlink of a file that is gone ends clearAll in its catch
ClearUnlinkOp(m, s) ==
    LET k == Head(m.procs[s].filesToClear) IN
    IF m.files[k] = NoPayload THEN Return(m, s, FALSE, NoPayload)
    ELSE LET m1 == [m EXCEPT !.files = FsUnlink(@, k), !.birthtime[k] = 0,
                             !.procs[s].filesToClear = Tail(@)]
         IN  IF Tail(m.procs[s].filesToClear) = <<>> THEN ClearMaps(m1, s) ELSE Continue(m1)

\* ------------------------------------------------------------ health check
\* healthCheckConsistencyThreshold, in percent
HealthCheckConsistencyThreshold == 90

\* Math.round(x * 100) / 100 of the percentage c / n * 100, in hundredths of a percent
RoundedPercent(c, n) == (2 * c * 10000 + n) \div (2 * n)

\* the issue getHealthStatus pushes for one metadata entry after its fs.stat
EntryIssue(m, e) ==
    IF m.files[e.key] = NoPayload THEN <<<<"Missing file", e.key>>>>
    ELSE IF ByteLength(m.files[e.key]) # m.objs[e.obj].dataSize
         THEN <<<<"Size mismatch", e.key>>>>
         ELSE <<>>

RECURSIVE EntryIssues(_, _)
EntryIssues(m, es) ==
    IF es = <<>> THEN <<>> ELSE EntryIssue(m, Head(es)) \o EntryIssues(m, Tail(es))

\* a health check that tells the caller the store is healthy whenever no file is missing
Mut_GetHealthStatusOp(m, s) ==
    LET entryIssues == EntryIssues(m, m.metadata)
        missing == SelectSeq(entryIssues, LAMBDA i : i[1] = "Missing file")
    IN  [mem |-> [m EXCEPT !.procs[s] = IdleProc],
         ret |-> [NoRet EXCEPT
                    !.kind = "getHealthStatus",
                    !.health = [healthy |-> TRUE,
                                issues |-> missing,
                                metadataConsistency |-> 10000,
                                filesOnDisk |-> Len(KeysInOrder(Keys, m.files)),
                                metadataEntries |-> Len(m.metadata),
                                orphanedFiles |-> Len(missing),
                                corruptedMetadata |-> 0]]]

\* getHealthStatus: fs.readdir, one fs.stat per metadata entry in Map order, the files
\* that no entry names, the pending save timer; it changes nothing
GetHealthStatusOp(m, s) ==
    LET found == KeysInOrder(Keys, m.files)
        metadataCount == Len(m.metadata)
        entryIssues == EntryIssues(m, m.metadata)
        missing == SelectSeq(entryIssues, LAMBDA i : i[1] = "Missing file")
        mismatch == SelectSeq(entryIssues, LAMBDA i : i[1] = "Size mismatch")
        consistentEntries == metadataCount - Len(entryIssues)
        orphans == SelectSeq(found, LAMBDA k : ~Has(m.metadata, k))
        issues == entryIssues
                  \o [i \in 1 .. Len(orphans) |-> <<"Orphaned file", orphans[i]>>]
                  \o (IF m.metadataSaveTimer # 0
                      THEN <<<<"Outstanding metadata save pending", "">>>> ELSE <<>>)
        above == IF metadataCount > 0
                 THEN consistentEntries * 100 > HealthCheckConsistencyThreshold * metadataCount
                 ELSE 100 > HealthCheckConsistencyThreshold
    IN  [mem |-> [m EXCEPT !.procs[s] = IdleProc],
         ret |-> [NoRet EXCEPT
                    !.kind = "getHealthStatus",
                    !.health = [healthy |-> issues = <<>> /\ above,
                                issues |-> issues,
                                metadataConsistency |->
                                    IF metadataCount > 0
                                    THEN RoundedPercent(consistentEntries, metadataCount)
                                    ELSE 10000,
                                filesOnDisk |-> Len(found),
                                metadataEntries |-> metadataCount,
                                orphanedFiles |-> Len(missing) + Len(orphans),
                                corruptedMetadata |-> Len(mismatch)]]]

\* the continuation a suspended handler runs when its I/O request completes
StepOp(m, s, t) ==
    CASE m.procs[s].pc = "set_write" -> SetWriteOp(m, s, t)
      [] m.procs[s].pc = "set_commit" -> SetCommitOp(m, s, t)
      [] m.procs[s].pc = "enf_unlink" -> EnforceUnlinkOp(m, s)
      [] m.procs[s].pc \in {"get_expired", "exists_expired"} -> ExpiredRemoveOp(m, s)
      [] m.procs[s].pc = "get_read" -> GetReadOp(m, s)
      [] m.procs[s].pc = "get_done" -> GetFinishOp(m, s, t)
      [] m.procs[s].pc = "exists_access" -> ExistsFinishOp(m, s)
      [] m.procs[s].pc = "del_remove" -> DeleteRemoveOp(m, s)
      [] m.procs[s].pc = "del_access" -> DeleteAccessOp(m, s)
      [] m.procs[s].pc = "del_unlink" -> DeleteUnlinkOp(m, s)
      [] m.procs[s].pc = "cleanup_unlink" -> CleanupUnlinkOp(m, s)
      [] m.procs[s].pc = "find_batch" -> FindBatchOp(m, s)
      [] m.procs[s].pc = "init_load" -> LoadOp(m, s, t)
      [] m.procs[s].pc = "val_stat" -> ValidateStatOp(m, s, t)
      [] m.procs[s].pc = "clear_readdir" -> ClearReaddirOp(m, s)
      [] m.procs[s].pc = "clear_unlink" -> ClearUnlinkOp(m, s)
      [] m.procs[s].pc = "save_unlink" -> SaveUnlinkOp(m, s, t)
      [] m.procs[s].pc = "save_mkdir" -> SaveMkdirOp(m, s, t)
      [] m.procs[s].pc = "save_open" -> SaveOpenOp(m, s)
      [] m.procs[s].pc = "save_write" -> SaveWriteOp(m, s)
      [] m.procs[s].pc = "save_rename" -> SaveRenameOp(m, s, t)

\* a handler that nothing interleaves with runs from its call to its return
RECURSIVE Run(_, _, _)
Run(r, s, t) == IF r.mem.procs[s].kind = "idle" THEN r ELSE Run(StepOp(r.mem, s, t), s, t)

\* ------------------------------------------------------------ actions
Running == ~crashed /\ ~destroyed

Quiescent == \A s \in Slots : procs[s].kind = "idle"

Frame == UNCHANGED <<now, maxSizeBytes, maxCacheAge, crashed, call>>

\* a call can be made: fewer than limit calls are in flight and a slot is free
CanStart(limit) ==
    /\ Running
    /\ Cardinality(UserOps) < limit
    /\ \E s \in Slots : procs[s].kind = "idle"

\* a timer identity is left for the next setTimeout
TimerLeft == Cardinality(armed) < Cardinality(TimerIds)

\* One caller that awaits each call before it makes the next: whole handlers.
Set(k, p) ==
    /\ CanStart(1) /\ TimerLeft
    /\ Apply(Run(SetStartOp(Cur, FreeSlot, k, p), FreeSlot, now))
    /\ Frame

Get(k) ==
    /\ CanStart(1) /\ TimerLeft
    /\ Has(metadata, k) => objs[RefOf(metadata, k)].accessCount < MaxAccessCount
    /\ Apply(Run(GetStartOp(Cur, FreeSlot, k, now), FreeSlot, now))
    /\ Frame

Exists(k) ==
    /\ CanStart(1)
    /\ Apply(Run(ExistsStartOp(Cur, FreeSlot, k, now), FreeSlot, now))
    /\ Frame

DeleteKey(k) ==
    /\ CanStart(1)
    /\ Apply(Run(DeleteStartOp(Cur, FreeSlot, k), FreeSlot, now))
    /\ Frame

GetHealthStatus ==
    /\ CanStart(1)
    /\ Apply(GetHealthStatusOp(Begin(Cur, FreeSlot, "getHealthStatus", ""), FreeSlot))
    /\ Frame

\* Changes made to the cache directory from outside the cache, between two calls.
\* the payload file of a key is deleted
FileLost(k) ==
    /\ ~crashed
    /\ Quiescent
    /\ files[k] # NoPayload
    /\ files' = FsUnlink(files, k)
    /\ birthtime' = [birthtime EXCEPT ![k] = 0]
    /\ ret' = NoRet
    /\ UNCHANGED <<now, maxSizeBytes, maxCacheAge, cachedCutoffDate, metadata, objs,
                   contentHashCache, contentHashIndex, sizeIndex, dateIndex, accessCountIndex,
                   snapshot, tmpFiles, metadataSaveTimer, armed, procs, expected, recovered,
                   destroyed, crashed, call>>

\* a payload file appears under a key that has neither a file nor a metadata entry
FilePlaced(k, p) ==
    /\ ~crashed
    /\ Quiescent
    /\ files[k] = NoPayload
    /\ ~Has(metadata, k)
    /\ files' = FsWriteFile(files, k, p)
    /\ birthtime' = [birthtime EXCEPT ![k] = now]
    /\ ret' = NoRet
    /\ UNCHANGED <<now, maxSizeBytes, maxCacheAge, cachedCutoffDate, metadata, objs,
                   contentHashCache, contentHashIndex, sizeIndex, dateIndex, accessCountIndex,
                   snapshot, tmpFiles, metadataSaveTimer, armed, procs, expected, recovered,
                   destroyed, crashed, call>>

\* the payload file of a key is deleted and created again with the same content
FileRecreated(k) ==
    /\ ~crashed
    /\ Quiescent
    /\ files[k] # NoPayload
    /\ birthtime[k] # now
    /\ birthtime' = [birthtime EXCEPT ![k] = now]
    /\ ret' = NoRet
    /\ UNCHANGED <<now, maxSizeBytes, maxCacheAge, cachedCutoffDate, metadata, objs,
                   contentHashCache, contentHashIndex, sizeIndex, dateIndex, accessCountIndex,
                   files, snapshot, tmpFiles, metadataSaveTimer, armed, procs, expected,
                   recovered, destroyed, crashed, call>>

\* the payload file of a key is rewritten in place with content of another length
FileResized(k, p) ==
    /\ Quiescent
    /\ files[k] # NoPayload
    /\ ByteLength(files[k]) # ByteLength(p)
    /\ files' = FsWriteFile(files, k, p)
    /\ ret' = NoRet
    /\ UNCHANGED <<now, maxSizeBytes, maxCacheAge, cachedCutoffDate, metadata, objs,
                   contentHashCache, contentHashIndex, sizeIndex, dateIndex, accessCountIndex,
                   birthtime, snapshot, tmpFiles, metadataSaveTimer, armed, procs, expected,
                   recovered, destroyed, crashed, call>>

\* The public handlers as they are called, with key data: validateCacheKeySize and
\* generateCacheKey run first, and the catch of the handler turns an error into its
\* failure result.
Caught(m, kind, e, data) ==
    [mem |-> m, ret |-> [NoRet EXCEPT !.kind = kind, !.rejected = e, !.keyData = data]]

Called(r, data) == [r EXCEPT !.ret.keyData = data]

SetDataOp(m, s, data, p, t) ==
    IF ValidateCacheKeySize(data) # "none"
    THEN Caught(m, "set", ValidateCacheKeySize(data), data)
    ELSE Called(Run(SetStartOp(m, s, CacheKeyOf(data), p), s, t), data)

GetDataOp(m, s, data, t) ==
    IF ValidateCacheKeySize(data) # "none"
    THEN Caught(m, "get", ValidateCacheKeySize(data), data)
    ELSE Called(Run(GetStartOp(m, s, CacheKeyOf(data), t), s, t), data)

ExistsDataOp(m, s, data, t) ==
    IF ValidateCacheKeySize(data) # "none"
    THEN Caught(m, "exists", ValidateCacheKeySize(data), data)
    ELSE Called(Run(ExistsStartOp(m, s, CacheKeyOf(data), t), s, t), data)

DeleteDataOp(m, s, data, t) ==
    IF ValidateCacheKeySize(data) # "none"
    THEN Caught(m, "deleteKey", ValidateCacheKeySize(data), data)
    ELSE Called(Run(DeleteStartOp(m, s, CacheKeyOf(data)), s, t), data)

SetData(data, p) ==
    /\ CanStart(1) /\ TimerLeft
    /\ Apply(SetDataOp(Cur, FreeSlot, data, p, now))
    /\ Frame

GetData(data) ==
    /\ CanStart(1) /\ TimerLeft
    /\ \A k \in Keys : Has(metadata, k) => objs[RefOf(metadata, k)].accessCount < MaxAccessCount
    /\ Apply(GetDataOp(Cur, FreeSlot, data, now))
    /\ Frame

ExistsData(data) ==
    /\ CanStart(1)
    /\ Apply(ExistsDataOp(Cur, FreeSlot, data, now))
    /\ Frame

DeleteData(data) ==
    /\ CanStart(1)
    /\ Apply(DeleteDataOp(Cur, FreeSlot, data, now))
    /\ Frame

\* validateCacheKeySize called on its own: it returns or throws to its caller
ValidateKey(data) ==
    /\ Running
    /\ Apply([mem |-> Cur,
              ret |-> [NoRet EXCEPT !.kind = "validateCacheKeySize", !.keyData = data,
                                    !.ok = ValidateCacheKeySize(data) = "none",
                                    !.thrown = ValidateCacheKeySize(data)]])
    /\ Frame

\* generateCacheKey applied to the two key data values
GenerateCacheKeys ==
    /\ ~call.done
    /\ call.a # Undefined
    /\ call' = [call EXCEPT !.keyA = GenerateCacheKey(call.a),
                            !.keyB = GenerateCacheKey(call.b),
                            !.done = TRUE]
    /\ UNCHANGED <<now, maxSizeBytes, maxCacheAge, cachedCutoffDate, metadata, objs,
                   contentHashCache, contentHashIndex, sizeIndex, dateIndex, accessCountIndex,
                   files, birthtime, snapshot, tmpFiles, metadataSaveTimer, armed, procs, ret,
                   expected, recovered, destroyed, crashed>>

CleanupOldEntries ==
    /\ CanStart(1)
    /\ Apply(Run(CleanupStartOp(Cur, FreeSlot, now), FreeSlot, now))
    /\ Frame

EnforceMaxCacheSize ==
    /\ CanStart(1)
    /\ Apply(Run(EnforceStartOp(Cur, FreeSlot), FreeSlot, now))
    /\ Frame

FindKeyByValue(p) ==
    /\ CanStart(1)
    /\ \E pick \in Keys :
          /\ IndexGet(contentHashIndex, ContentHash(p)) # {}
                => pick \in IndexGet(contentHashIndex, ContentHash(p))
          /\ IndexGet(contentHashIndex, ContentHash(p)) = {} => pick = FirstKey
          /\ Apply(Run(FindStartOp(Cur, FreeSlot, "findKey", p, now, pick), FreeSlot, now))
    /\ Frame

FindAllKeysByValue(p) ==
    /\ CanStart(1)
    /\ Apply(Run(FindStartOp(Cur, FreeSlot, "findAll", p, now, FirstKey), FreeSlot, now))
    /\ Frame

ClearAll ==
    /\ CanStart(1)
    /\ Apply(Run(ClearStartOp(Cur, FreeSlot), FreeSlot, now))
    /\ Frame

Destroy ==
    /\ CanStart(1)
    /\ Apply(Run(DestroyStartOp(Cur, FreeSlot), FreeSlot, now))
    /\ Frame

\* a due batched-save timer fires and its save runs to its end
TimerSave(id) ==
    /\ ~crashed
    /\ Quiescent
    /\ \E x \in armed : x.id = id /\ x.due <= now
    /\ Apply(Run(TimerFireOp(Cur, FreeSlot, id), FreeSlot, now))
    /\ Frame

\* a new instance is constructed on the directory of one that was destroyed or killed,
\* and its initializeCache runs to its end
Restart ==
    /\ destroyed \/ crashed
    /\ Quiescent
    /\ Apply(Run(InitStartOp(Construct(Cur, now), 1), 1, now))
    /\ crashed' = FALSE
    /\ UNCHANGED <<now, maxSizeBytes, maxCacheAge, call>>

\* a new instance is constructed on the directory of one that was destroyed or killed;
\* its initializeCache runs up to the await of loadMetadata and is resumed by Step
RestartStart ==
    /\ destroyed \/ crashed
    /\ Quiescent
    /\ Apply(InitStartOp(Construct(Cur, now), 1))
    /\ crashed' = FALSE
    /\ UNCHANGED <<now, maxSizeBytes, maxCacheAge, call>>

\* the snapshot file of a stopped instance is damaged: its text is no longer JSON
CorruptSnapshot ==
    /\ destroyed \/ crashed
    /\ Quiescent
    /\ snapshot.state = "ok"
    /\ snapshot' = [snapshot EXCEPT !.state = "torn"]
    /\ recovered' = NotRecovered
    /\ ret' = NoRet
    /\ UNCHANGED <<now, maxSizeBytes, maxCacheAge, cachedCutoffDate, metadata, objs,
                   contentHashCache, contentHashIndex, sizeIndex, dateIndex, accessCountIndex,
                   files, birthtime, tmpFiles, metadataSaveTimer, armed, procs, expected,
                   destroyed, crashed, call>>

\* Calls made without awaiting the previous one: a call runs up to its first
\* suspension point, and Step resumes any suspended handler.
SetStart(k, p) ==
    /\ CanStart(2)
    /\ Apply(SetStartOp(Cur, FreeSlot, k, p))
    /\ Frame

GetStart(k) ==
    /\ CanStart(2)
    /\ Has(metadata, k) => objs[RefOf(metadata, k)].accessCount < MaxAccessCount
    /\ Apply(GetStartOp(Cur, FreeSlot, k, now))
    /\ Frame

ExistsStart(k) ==
    /\ CanStart(2)
    /\ Apply(ExistsStartOp(Cur, FreeSlot, k, now))
    /\ Frame

DeleteStart(k) ==
    /\ CanStart(2)
    /\ Apply(DeleteStartOp(Cur, FreeSlot, k))
    /\ Frame

CleanupStart ==
    /\ CanStart(2)
    /\ Apply(CleanupStartOp(Cur, FreeSlot, now))
    /\ Frame

EnforceStart ==
    /\ CanStart(2)
    /\ Apply(EnforceStartOp(Cur, FreeSlot))
    /\ Frame

DestroyStart ==
    /\ CanStart(1)
    /\ Apply(DestroyStartOp(Cur, FreeSlot))
    /\ Frame

\* a suspended handler resumes
Step(s) ==
    /\ ~crashed
    /\ procs[s].kind # "idle"
    /\ procs[s].pc \in {"set_commit", "get_done"} => TimerLeft
    /\ Apply(StepOp(Cur, s, now))
    /\ Frame

\* a due batched-save timer fires
TimerFire(id) ==
    /\ ~crashed
    /\ \E x \in armed : x.id = id /\ x.due <= now
    /\ \E s \in Slots : procs[s].kind = "idle"
    /\ Apply(TimerFireOp(Cur, FreeSlot, id))
    /\ Frame

\* the process is killed: the handlers and timers are gone, the files stay
Crash ==
    /\ ~crashed
    /\ crashed' = TRUE
    /\ cachedCutoffDate' = NoDate
    /\ metadata' = <<>>
    /\ objs' = [o \in ObjIds |-> NullObj]
    /\ contentHashCache' = [k \in Keys |-> NoHash]
    /\ contentHashIndex' = EmptyIndex
    /\ sizeIndex' = EmptyIndex
    /\ dateIndex' = EmptyIndex
    /\ accessCountIndex' = EmptyIndex
    /\ metadataSaveTimer' = 0
    /\ armed' = {}
    /\ procs' = [s \in Slots |-> IdleProc]
    /\ expected' = [k \in Keys |-> NoPayload]
    /\ recovered' = NotRecovered
    /\ ret' = NoRet
    /\ UNCHANGED <<now, maxSizeBytes, maxCacheAge, files, birthtime, snapshot, tmpFiles, destroyed,
                   call>>

Tick ==
    /\ ~crashed
    /\ now < MaxTime
    /\ now' = now + 1
    /\ ret' = NoRet
    /\ UNCHANGED <<maxSizeBytes, maxCacheAge, cachedCutoffDate, metadata, objs, contentHashCache,
                   contentHashIndex, sizeIndex, dateIndex, accessCountIndex, files, birthtime,
                   snapshot, tmpFiles, metadataSaveTimer, armed, procs, expected, recovered,
                   destroyed, crashed, call>>

\* the clock advances while no handler is in flight
TickQuiet == Quiescent /\ Tick

\* ------------------------------------------------------------ specifications
\* the state after construction on an empty cache directory, with the configured
\* maximum age in days
ConstructedWith(age) ==
    /\ now = 0
    /\ maxSizeBytes = DefaultMaxSizeBytes
    /\ maxCacheAge = age
    /\ cachedCutoffDate = NoDate
    /\ metadata = <<>>
    /\ objs = [o \in ObjIds |-> NullObj]
    /\ contentHashCache = [k \in Keys |-> NoHash]
    /\ contentHashIndex = EmptyIndex
    /\ sizeIndex = EmptyIndex
    /\ dateIndex = EmptyIndex
    /\ accessCountIndex = EmptyIndex
    /\ files = [k \in Keys |-> NoPayload]
    /\ birthtime = [k \in Keys |-> 0]
    /\ recovered = NotRecovered
    /\ snapshot = Absent
    /\ tmpFiles = [n \in 0 .. MaxTime |-> Absent]
    /\ metadataSaveTimer = 0
    /\ armed = {}
    /\ procs = [s \in Slots |-> IdleProc]
    /\ ret = NoRet
    /\ expected = [k \in Keys |-> NoPayload]
    /\ destroyed = FALSE
    /\ crashed = FALSE

\* the state after construction with the default configuration
Constructed == ConstructedWith(DefaultMaxCacheAge)

Init == Constructed /\ call = NoCall

\* a cache constructed with the configuration { maxCacheAge: 0 }
InitZeroAge == ConstructedWith(0) /\ call = NoCall

\* a constructed cache and two key data values that generateCacheKey is to be applied to
InitKey == Constructed /\ call \in {[NoCall EXCEPT !.a = x, !.b = y] : x, y \in KeyValues}

\* one caller that awaits each call
Next ==
    \/ \E k \in SeqKeys, p \in Payloads : Set(k, p)
    \/ \E k \in SeqKeys : Get(k)
    \/ \E k \in SeqKeys : Exists(k)
    \/ \E k \in SeqKeys : DeleteKey(k)
    \/ CleanupOldEntries
    \/ EnforceMaxCacheSize
    \/ Tick

Spec == Init /\ [][Next]_vars

\* up to two calls in flight, interleaved at their suspension points
NextConc ==
    \/ \E k \in ConcKeys, p \in ConcPayloads : SetStart(k, p)
    \/ \E k \in ConcKeys : GetStart(k)
    \/ \E k \in ConcKeys : ExistsStart(k)
    \/ \E k \in ConcKeys : DeleteStart(k)
    \/ CleanupStart
    \/ EnforceStart
    \/ \E s \in Slots : Step(s)
    \/ TickQuiet

SpecConc == Init /\ [][NextConc]_vars

\* one caller that awaits each call, three keys, sets and gets only
NextLru ==
    \/ \E k \in Keys, p \in LruPayloads : Set(k, p)
    \/ \E k \in Keys : Get(k)
    \/ EnforceMaxCacheSize
    \/ Tick

SpecLru == Init /\ [][NextLru]_vars

\* one caller that awaits each call, the batched-save timer, shutdown and a kill
NextSave ==
    \/ \E k \in SaveKeys, p \in SavePayloads : Set(k, p)
    \/ \E k \in SaveKeys : Get(k)
    \/ DestroyStart
    \/ \E id \in TimerIds : TimerFire(id)
    \/ \E s \in Slots : Step(s)
    \/ Crash
    \/ Tick

SpecSave == Init /\ [][NextSave]_vars

\* one caller that awaits each call, the batched-save timer, clearAll, shutdown and
\* restart on the same directory
NextStop ==
    \/ \E k \in SaveKeys, p \in SavePayloads : Set(k, p)
    \/ \E id \in TimerIds : TimerFire(id)
    \/ \E s \in Slots : Step(s)
    \/ ClearAll
    \/ DestroyStart
    \/ Restart
    \/ Tick

SpecStop == Init /\ [][NextStop]_vars

\* one caller that awaits each call, timer saves that run to their end, shutdown and
\* restart on the same directory
NextRestart ==
    \/ \E k \in SaveKeys, p \in SavePayloads : Set(k, p)
    \/ \E k \in SaveKeys : Get(k)
    \/ ClearAll
    \/ \E id \in TimerIds : TimerSave(id)
    \/ Destroy
    \/ CorruptSnapshot
    \/ Restart
    \/ Tick

SpecRestart == Init /\ [][NextRestart]_vars

\* one caller that awaits each call: sets of equal-sized payloads, searches by value,
\* shutdown and restart on the same directory
NextFind ==
    \/ \E k \in SeqKeys, p \in SameSizePayloads : Set(k, p)
    \/ \E p \in SameSizePayloads : FindKeyByValue(p)
    \/ \E p \in SameSizePayloads : FindAllKeysByValue(p)
    \/ Destroy
    \/ Restart

SpecFind == Init /\ [][NextFind]_vars

\* one caller that awaits each call and passes key data, valid or not
NextReject ==
    \/ \E data \in KeyData, p \in SavePayloads : SetData(data, p)
    \/ \E data \in KeyData : GetData(data)
    \/ \E data \in KeyData : ExistsData(data)
    \/ \E data \in KeyData : DeleteData(data)
    \/ \E data \in KeyData : ValidateKey(data)

SpecReject == Init /\ [][NextReject]_vars

\* one caller that awaits each call on one key, while its payload file is deleted from
\* outside the cache
NextMissing ==
    \/ \E k \in SaveKeys, p \in SavePayloads : Set(k, p)
    \/ \E k \in SaveKeys : Get(k)
    \/ \E k \in SaveKeys : Exists(k)
    \/ \E k \in SaveKeys : FileLost(k)
    \/ Tick

SpecMissing == Init /\ [][NextMissing]_vars

\* one caller that awaits each call, health checks, timer saves that run to their end,
\* while payload files are deleted or rewritten from outside the cache
NextHeal ==
    \/ \E k \in SeqKeys, p \in HealPayloads : Set(k, p)
    \/ \E k \in SeqKeys : FileLost(k)
    \/ \E k \in SeqKeys, p \in SavePayloads : FileResized(k, p)
    \/ GetHealthStatus
    \/ \E id \in TimerIds : TimerSave(id)
    \/ Tick

SpecHeal == Init /\ [][NextHeal]_vars

\* one caller that awaits each call, while payload files are deleted or placed from
\* outside the cache
NextDelete ==
    \/ \E k \in SeqKeys, p \in HealPayloads : Set(k, p)
    \/ \E k \in SeqKeys : Get(k)
    \/ \E k \in SeqKeys : Exists(k)
    \/ \E k \in SeqKeys : DeleteKey(k)
    \/ \E k \in SeqKeys : FileLost(k)
    \/ \E k \in SeqKeys, p \in HealPayloads : FilePlaced(k, p)

SpecDelete == Init /\ [][NextDelete]_vars

\* one caller that awaits each call, on a cache that retains nothing
NextZeroAge ==
    \/ \E k \in SeqKeys, p \in HealPayloads : Set(k, p)
    \/ \E k \in SeqKeys : Exists(k)
    \/ CleanupOldEntries
    \/ Tick

SpecZeroAge == InitZeroAge /\ [][NextZeroAge]_vars

\* one caller that awaits each call, shutdown, payload files deleted or rewritten from
\* outside the cache, and a restart whose initializeCache is followed step by step
NextBoot ==
    \/ \E k \in SeqKeys, p \in SavePayloads : Set(k, p)
    \/ \E k \in SeqKeys : FileLost(k)
    \/ \E k \in SeqKeys, p \in SavePayloads : FileResized(k, p)
    \/ Destroy
    \/ RestartStart
    \/ \E s \in Slots : Step(s)

SpecBoot == Init /\ [][NextBoot]_vars

\* up to two calls on one key in flight, interleaved at their suspension points: sets,
\* gets, exists and deleteKey
NextTouch ==
    \/ \E k \in ConcKeys, p \in HealPayloads : SetStart(k, p)
    \/ \E k \in ConcKeys : GetStart(k)
    \/ \E k \in ConcKeys : ExistsStart(k)
    \/ \E k \in ConcKeys : DeleteStart(k)
    \/ \E s \in Slots : Step(s)
    \/ TickQuiet

SpecTouch == Init /\ [][NextTouch]_vars

\* up to two sets of one key in flight, interleaved at their suspension points
NextSameKey ==
    \/ \E k \in ConcKeys, p \in ConcPayloads : SetStart(k, p)
    \/ \E s \in Slots : Step(s)
    \/ TickQuiet

SpecSameKey == Init /\ [][NextSameKey]_vars

\* up to two sets in flight, of any keys, interleaved at their suspension points
NextSets ==
    \/ \E k \in Keys, p \in ConcPayloads : SetStart(k, p)
    \/ \E s \in Slots : Step(s)

SpecSets == Init /\ [][NextSets]_vars

\* one caller that awaits each call and may stop calling at any moment; the clock keeps
\* advancing and a due batched-save timer is run by the event loop. A set is called
\* while the clock leaves its timer the time to come due.
SetInTime(k, p) == now + MetadataSaveDelay <= MaxTime /\ Set(k, p)

NextFlush ==
    \/ \E k \in SaveKeys, p \in HealPayloads : SetInTime(k, p)
    \/ \E k \in SaveKeys : Exists(k)
    \/ \E k \in SaveKeys : DeleteKey(k)
    \/ CleanupOldEntries
    \/ \E id \in TimerIds : TimerSave(id)
    \/ Tick

\* TimerSave is enabled: a batched-save timer is due and the event loop is free
TimerDue == ~crashed /\ Quiescent /\ \E x \in armed : x.due <= now

\* weak fairness of the clock and of the timer callback, the latter written out with
\* the enabling condition of TimerSave
SpecFlush ==
    /\ Init
    /\ [][NextFlush]_vars
    /\ WF_vars(Tick)
    /\ ([]<>(~TimerDue) \/ []<><<\E id \in TimerIds : TimerSave(id)>>_vars)

\* one caller that awaits each call, the batched-save timer, a kill and a restart on the
\* same directory, with every save run step by step
NextSweep ==
    \/ \E k \in SaveKeys, p \in HealPayloads : Set(k, p)
    \/ \E id \in TimerIds : TimerFire(id)
    \/ \E s \in Slots : Step(s)
    \/ Crash
    \/ RestartStart
    \/ Tick

SpecSweep == Init /\ [][NextSweep]_vars

\* one caller that awaits each call and searches by value while entries age
NextFindAge ==
    \/ \E k \in SeqKeys, p \in SameSizePayloads : Set(k, p)
    \/ \E p \in SameSizePayloads : FindKeyByValue(p)
    \/ \E p \in SameSizePayloads : FindAllKeysByValue(p)
    \/ \E id \in TimerIds : TimerSave(id)
    \/ Tick

SpecFindAge == Init /\ [][NextFindAge]_vars

\* one caller that awaits each call, a payload file created anew from outside the cache,
\* shutdown, and a restart whose initializeCache is followed step by step
NextBirth ==
    \/ \E k \in SaveKeys, p \in HealPayloads : Set(k, p)
    \/ \E k \in SaveKeys : FileRecreated(k)
    \/ Destroy
    \/ RestartStart
    \/ \E s \in Slots : Step(s)
    \/ Tick

SpecBirth == Init /\ [][NextBirth]_vars

\* generateCacheKey as a function of its argument
NextKey == GenerateCacheKeys

SpecKey == InitKey /\ [][NextKey]_vars

\* ------------------------------------------------------------ properties
\* the fields of the stored entries that size enforcement looks at
EntriesOf(m, os) ==
    {[key |-> m[i].key, lastAccessed |-> os[m[i].obj].lastAccessed,
      dataSize |-> os[m[i].obj].dataSize] : i \in 1 .. Len(m)}

RECURSIVE SetSum(_)
SetSum(S) ==
    IF S = {} THEN 0 ELSE LET e == CHOOSE x \in S : TRUE IN e.dataSize + SetSum(S \ {e})

\* the snapshot that holds the current Metadata Store
SnapshotOf(m, os) == IF Len(m) = 0 THEN Absent ELSE Written(SerializeMetadata(m, os))

\* C1: with calls made one at a time, whenever set has just returned true the sum of
\* dataSize over the Metadata Store is at most the configured maximum cache size.
C1_SizeInvariant ==
    (ret.kind = "set" /\ ret.ok) => SumSizes(metadata, objs) <= maxSizeBytes

\* a set returned true after its size enforcement evicted an entry
C1_Witness ==
    /\ ret.kind = "set" /\ ret.ok
    /\ ret.removedCount >= 1
    /\ SumSizes(metadata, objs) <= maxSizeBytes

\* C2: a get of a key whose last set returned true, and whose entry has not been removed
\* since by expiry, eviction or deleteKey, returns exactly the payload of that set.
C2_RoundTrip ==
    (ret.kind = "get" /\ expected[ret.key] # NoPayload)
        => (ret.ok /\ ret.data = expected[ret.key])

\* a get returned the payload its key was last set to, and counted the access
C2_Witness ==
    /\ ret.kind = "get" /\ ret.ok
    /\ expected[ret.key] = ret.data
    /\ objs[RefOf(metadata, ret.key)].accessCount = 1
    /\ ret.data = <<1, "a">>

\* C3: whenever no call is in flight, every Metadata Store entry has its payload file on
\* disk and the file's byte length equals the entry's dataSize, whatever the interleaving
\* of set, get, exists, deleteKey, cleanupOldEntries and enforceMaxCacheSize was.
C3_FilePerEntry ==
    Quiescent =>
        \A i \in 1 .. Len(metadata) :
            /\ files[metadata[i].key] # NoPayload
            /\ ByteLength(files[metadata[i].key]) = objs[metadata[i].obj].dataSize

\* C4: every Metadata Store entry is in exactly the size bucket of its dataSize, the date
\* bucket of the day of its createdAt and the access-count bucket of its accessCount, and
\* in the content-hash bucket of its cached content hash.
C4_IndexedExactly ==
    \A i \in 1 .. Len(metadata) :
        LET k == metadata[i].key
            o == objs[metadata[i].obj]
        IN  /\ \A b \in DOMAIN sizeIndex : k \in sizeIndex[b] <=> b = o.dataSize
            /\ k \in FindKeysBySize(o.dataSize)
            /\ \A b \in DOMAIN dateIndex : k \in dateIndex[b] <=> b = DateKey(o.createdAt)
            /\ k \in FindKeysByDate(DateKey(o.createdAt))
            /\ \A b \in DOMAIN accessCountIndex : k \in accessCountIndex[b] <=> b = o.accessCount
            /\ k \in FindKeysByAccessCount(o.accessCount)
            /\ contentHashCache[k] # NoHash => k \in IndexGet(contentHashIndex, contentHashCache[k])

\* C5: every key found in a bucket of one of the four indexes is a key of the Metadata
\* Store, so a removed entry is in no bucket.
C5_IndexKeysStored ==
    /\ \A b \in DOMAIN sizeIndex : sizeIndex[b] \subseteq MapKeys(metadata)
    /\ \A b \in DOMAIN dateIndex : dateIndex[b] \subseteq MapKeys(metadata)
    /\ \A b \in DOMAIN accessCountIndex : accessCountIndex[b] \subseteq MapKeys(metadata)
    /\ \A b \in DOMAIN contentHashIndex : contentHashIndex[b] \subseteq MapKeys(metadata)

\* C6: when a get has just succeeded on an entry whose accessCount was n, the key is in
\* access-count bucket n+1 and no longer in bucket n.
C6_AccessBucketMoves ==
    (ret.kind = "get" /\ ret.ok /\ Has(metadata, ret.key)) =>
        LET c == objs[RefOf(metadata, ret.key)].accessCount
        IN  /\ ret.key \in FindKeysByAccessCount(c)
            /\ ret.key \notin FindKeysByAccessCount(c - 1)

\* C7: with calls made one at a time, size enforcement evicts exactly the shortest prefix,
\* in ascending lastAccessed order,
\* whose removal brings the aggregate dataSize to at or below the maximum: nothing is
\* evicted while a strictly older entry stays, and nothing once the aggregate is within
\* the limit. In a step that ends a set or an enforceMaxCacheSize, pre is the set of
\* entries enforcement starts from (for a set, the stored entries with the set's own
\* entry written) and evicted the entries of pre that are no longer stored.
C7_LruPrefix ==
    [][(ret'.kind \in {"set", "enforce"} /\ ret'.ok) =>
        LET pre == IF ret'.kind = "set"
                   THEN {e \in EntriesOf(metadata, objs) : e.key # ret'.key}
                           \cup {[key |-> ret'.key, lastAccessed |-> now,
                                  dataSize |-> ByteLength(ret'.data)]}
                   ELSE EntriesOf(metadata, objs)
            evicted == {e \in pre : e.key \notin MapKeys(metadata')}
        IN  /\ \A e \in evicted : \A r \in pre \ evicted : ~(r.lastAccessed < e.lastAccessed)
            /\ SetSum(pre) <= maxSizeBytes => evicted = {}
            /\ SetSum(pre \ evicted) <= maxSizeBytes
            /\ evicted # {} =>
                  \E last \in evicted :
                      /\ \A e \in evicted : e.lastAccessed <= last.lastAccessed
                      /\ SetSum(pre \ (evicted \ {last})) > maxSizeBytes
            /\ ret'.removedCount = Cardinality(evicted)
            /\ EntriesOf(metadata', objs') = pre \ evicted]_vars

\* a set evicted one entry and left two entries, its own among them
C7_Witness ==
    /\ ret.kind = "set" /\ ret.ok
    /\ ret.removedCount = 1
    /\ Len(metadata) = 2
    /\ Has(metadata, ret.key)

\* C8: the snapshot file is at every moment absent or a complete serialization; it never
\* holds partially written content.
C8_SnapshotNeverPartial == snapshot # Torn

\* C9: at most one batched-save timer is armed at any moment.
C9_SingleTimer == Cardinality(armed) <= 1

\* C10: once destroy has returned no batched-save timer is armed, and when nothing is in
\* flight the snapshot holds the Metadata Store as it is in memory.
C10_DestroyDrains ==
    (destroyed /\ ~crashed) =>
        /\ armed = {}
        /\ Quiescent => snapshot = SnapshotOf(metadata, objs)

\* the cutoff an entry's createdAt is compared with at time t
CutoffAt(t) == t - maxCacheAge * DayLen

\* C11: when a handler that ends with a save or with initialization has returned and
\* the Metadata Store is empty, the snapshot file does not exist (a file that was
\* overwritten from outside is left aside).
C11_EmptyStoreNoSnapshot ==
    (ret.kind \in {"init", "clearAll", "destroy"} /\ Len(metadata) = 0 /\ snapshot.state # "torn")
        => snapshot = Absent

\* C12: when clearAll has returned and nothing is in flight, the Metadata Store, the
\* content-hash cache and the four indexes are empty, no payload file is left, no
\* batched-save timer is armed and the snapshot file does not exist.
C12_ClearAllEmpties ==
    (ret.kind = "clearAll" /\ Quiescent) =>
        /\ metadata = <<>>
        /\ \A k \in Keys : contentHashCache[k] = NoHash /\ files[k] = NoPayload
        /\ contentHashIndex = EmptyIndex /\ sizeIndex = EmptyIndex
        /\ dateIndex = EmptyIndex /\ accessCountIndex = EmptyIndex
        /\ armed = {}
        /\ snapshot = Absent

\* C13: when a new instance is constructed after destroy has returned, every entry of
\* the destroyed instance that is unexpired and whose file is intact is in the new
\* Metadata Store with the same createdAt, lastAccessed, dataSize and accessCount, and
\* its payload file is unchanged.
C13_SurvivesRestart ==
    [][(destroyed /\ ~crashed /\ ret'.kind = "init") =>
        \A i \in 1 .. Len(metadata) :
            LET k == metadata[i].key
                e == objs[metadata[i].obj]
            IN  (/\ ~(e.createdAt < CutoffAt(now))
                 /\ files[k] # NoPayload
                 /\ ByteLength(files[k]) = e.dataSize)
                    => /\ Has(metadata', k)
                       /\ objs'[RefOf(metadata', k)] = e
                       /\ files'[k] = files[k]]_vars

\* C14: when initialization has returned, every entry of the Metadata Store is in the
\* size, date and access-count buckets its fields imply.
C14_IndexesRebuilt ==
    ret.kind = "init" =>
        \A i \in 1 .. Len(metadata) :
            LET k == metadata[i].key
                e == objs[metadata[i].obj]
            IN  /\ k \in FindKeysBySize(e.dataSize)
                /\ k \in FindKeysByDate(DateKey(e.createdAt))
                /\ k \in FindKeysByAccessCount(e.accessCount)

\* C15: an instance constructed over an absent or unparsable snapshot starts with an
\* empty Metadata Store; its set calls return true, a snapshot written in it holds only
\* entries set in it, and once no save is pending the snapshot holds the stored entries.
C15_RecoversFromCorruptSnapshot ==
    recovered.on =>
        /\ ret.kind = "init" => (ret.ok /\ metadata = <<>>)
        /\ ret.kind = "set" => ret.ok
        /\ snapshot.state = "ok" =>
              \A i \in 1 .. Len(snapshot.content) :
                  /\ snapshot.content[i][1] \in recovered.keys
                  /\ snapshot.content[i][2].createdAt >= recovered.since
        /\ (armed = {} /\ metadata # <<>>) => snapshot = SnapshotOf(metadata, objs)

\* an instance that found an unparsable snapshot has persisted an entry set in it
C15_Witness ==
    /\ recovered.on /\ recovered.from = "unparsable"
    /\ recovered.keys # {}
    /\ armed = {}
    /\ metadata # <<>>
    /\ snapshot = SnapshotOf(metadata, objs)

\* C16: findAllKeysByValue(p) returns every key whose entry is stored, unexpired and has
\* payload p, and findKeyByValue(p) returns absent only when there is no such entry.
C16_FindComplete ==
    LET holders(p) == {metadata[i].key : i \in
                          {j \in 1 .. Len(metadata) :
                              /\ ~(objs[metadata[j].obj].createdAt < CutoffAt(now))
                              /\ files[metadata[j].key] = p}}
    IN  /\ ret.kind = "findAll" => holders(ret.data) \subseteq ret.keys
        /\ (ret.kind = "findKey" /\ ~ret.ok) => holders(ret.data) = {}

\* two values are equal except for the order of object fields, at any depth
RECURSIVE SameUpToFieldOrder(_, _)
SameUpToFieldOrder(x, y) ==
    /\ x.t = y.t
    /\ x.chars = y.chars
    /\ Len(x.kids) = Len(y.kids)
    /\ \A i \in 1 .. Len(x.kids) :
          IF x.t = "object"
          THEN \E j \in 1 .. Len(y.kids) :
                  /\ x.kids[i].name = y.kids[j].name
                  /\ SameUpToFieldOrder(x.kids[i].val, y.kids[j].val)
          ELSE SameUpToFieldOrder(x.kids[i].val, y.kids[i].val)

\* two arrays hold the same elements in a different order
ArrayReordered(x, y) ==
    /\ x.t = "array" /\ y.t = "array"
    /\ Len(x.kids) = Len(y.kids)
    /\ x # y
    /\ \E f \in Permutations(1 .. Len(x.kids)) : \A i \in 1 .. Len(x.kids) : y.kids[i] = x.kids[f[i]]

\* C17: generateCacheKey gives the same key to two key data values that are equal except
\* for the order of object fields at any depth, and different keys (different
\* serialized normal forms) to two arrays that differ in the order of their elements.
C17_FieldOrderIrrelevant ==
    call.done =>
        /\ SameUpToFieldOrder(call.a, call.b) => call.keyA = call.keyB
        /\ ArrayReordered(call.a, call.b) => call.keyA # call.keyB

\* two arrays or objects differ at one position only, at any depth, where the first
\* holds u and the second holds v
RECURSIVE DiffersAt(_, _, _, _)
DiffersAt(x, y, u, v) ==
    /\ x.t = y.t
    /\ x.t \in {"array", "object"}
    /\ Len(x.kids) = Len(y.kids)
    /\ \A i \in 1 .. Len(x.kids) : x.kids[i].name = y.kids[i].name
    /\ \E i \in 1 .. Len(x.kids) :
          /\ \A j \in 1 .. Len(x.kids) : j # i => x.kids[j] = y.kids[j]
          /\ \/ x.kids[i].val = u /\ y.kids[i].val = v
             \/ DiffersAt(x.kids[i].val, y.kids[i].val, u, v)

NormalValues == {Str(<<"x">>), Num(<<"1">>), Bool(<<"t", "r", "u", "e">>)}

\* C18: two key data values that differ only in holding null and undefined at one
\* position (an object field or an array element) get different keys, and each gets a key
\* different from that of the same key data with a string, number or boolean there.
C18_NullUndefinedDistinct ==
    call.done =>
        /\ DiffersAt(call.a, call.b, Null, Undefined) => call.keyA # call.keyB
        /\ \A v \in NormalValues :
              (DiffersAt(call.a, call.b, Null, v) \/ DiffersAt(call.a, call.b, Undefined, v))
                  => call.keyA # call.keyB

\* C19: validateCacheKeySize throws the size error exactly when the serialized key data is
\* longer than the limit and the circular-reference error exactly when the key data
\* refers to itself; set, get, exists and deleteKey reject exactly these key data, and
\* a rejected call leaves the files, the Metadata Store, the hash cache, the indexes, the
\* snapshot and the timers as they were.
C19_ValidationFirst ==
    [][LET data == ret'.keyData
           tooLarge == ~HasCycle(data) /\ Len(Stringify(data)) > CacheKeyLimitBytes
       IN  /\ ret'.kind = "validateCacheKeySize" =>
                 /\ ret'.thrown = "size" <=> tooLarge
                 /\ ret'.thrown = "circular" <=> HasCycle(data)
           /\ (ret'.kind \in {"set", "get", "exists", "deleteKey"} /\ data # Undefined) =>
                 /\ ret'.rejected = "size" <=> tooLarge
                 /\ ret'.rejected = "circular" <=> HasCycle(data)
                 /\ ret'.rejected # "none" =>
                       /\ ~ret'.ok
                       /\ UNCHANGED <<cachedCutoffDate, metadata, objs, contentHashCache,
                                      contentHashIndex, sizeIndex, dateIndex, accessCountIndex,
                                      files, birthtime, snapshot, tmpFiles, metadataSaveTimer,
                                      armed, procs>>]_vars

\* a set with key data over the limit has been rejected while an entry is stored and a
\* batched save is pending
C19_Witness ==
    /\ ret.kind = "set"
    /\ ret.rejected = "size"
    /\ Len(metadata) > 0
    /\ armed # {}

\* C20: when set, get or exists is called with key data that validateCacheKeySize rejects,
\* the error reaches the caller, so the outcome differs from the false or absent that the
\* call returns normally.
C20_ErrorSurfaces ==
    (ret.kind \in {"set", "get", "exists"} /\ ret.rejected # "none") => ret.thrown = ret.rejected

\* ------------------------------------------------------------ C21 .. C30
\* the entry of key k is past the retention cutoff of the present moment
ExpiredNow(k) == Has(metadata, k) /\ objs[RefOf(metadata, k)].createdAt < CutoffAt(now)

C22_DeleteKeyRemoves ==
    [][/\ ret'.kind = "deleteKey" =>
            /\ ret'.ok <=> (Has(metadata, ret'.key) \/ files[ret'.key] # NoPayload)
            /\ ~Has(metadata', ret'.key)
            /\ files'[ret'.key] = NoPayload
       /\ (ret.kind = "deleteKey" /\ ret'.kind \in {"get", "exists"} /\ ret'.key = ret.key)
             => ~ret'.ok]_vars

\* deleteKey has just returned true for a key that had a payload file and no metadata
\* entry: the entry had been dropped by a get or an exists that found no file, so the
\* set that stored it is still on record; then a file was placed under the key
C22_Witness ==
    /\ ret.kind = "deleteKey"
    /\ ret.ok
    /\ expected[ret.key] # NoPayload
    /\ ~Has(metadata, ret.key)
    /\ files[ret.key] = NoPayload

\* C23: when cleanupOldEntries returns, with nothing interleaved, no entry left in the
\* Metadata Store has createdAt older than the retention cutoff (the present time minus
\* the maximum age), and the payload file of every entry it removed is gone.
C23_CleanupLeavesNoOldEntry ==
    [][ret'.kind = "cleanup" =>
        /\ \A i \in 1 .. Len(metadata') : objs'[metadata'[i].obj].createdAt >= CutoffAt(now)
        /\ \A k \in MapKeys(metadata) \ MapKeys(metadata') : files'[k] = NoPayload]_vars

\* C24: with a maximum age of zero, an exists that follows a cleanupOldEntries returns
\* false for every entry that was set strictly before the time of the cleanup.
C24_ZeroAgeKeepsNothing ==
    [][(/\ maxCacheAge = 0
        /\ ret.kind = "cleanup"
        /\ ret'.kind = "exists"
        /\ Has(metadata, ret'.key) => objs[RefOf(metadata, ret'.key)].createdAt < now)
       => ~ret'.ok]_vars

\* the stored keys whose payload file is not on disk
LostKeys == {k \in MapKeys(metadata) : files[k] = NoPayload}

\* the stored keys whose payload file is on disk with the length the entry records
ConsistentKeys ==
    {k \in MapKeys(metadata) :
        files[k] # NoPayload /\ ByteLength(files[k]) = objs[RefOf(metadata, k)].dataSize}

\* C26: when exactly one stored entry has lost its payload file, getHealthStatus reports
\* exactly one missing-file issue, naming that key, a consistency below 100 percent and
\* healthy = false; it reports healthy = true only with no issue at all and with more
\* than the threshold percentage of the entries consistent.
C26_HealthReportsMissingFile ==
    ret.kind = "getHealthStatus" =>
        LET h == ret.health
            missing == SelectSeq(h.issues, LAMBDA i : i[1] = "Missing file")
        IN  /\ Cardinality(LostKeys) = 1 =>
                  /\ Len(missing) = 1
                  /\ missing[1][2] \in LostKeys
                  /\ h.metadataConsistency < 10000
                  /\ ~h.healthy
            /\ h.healthy =>
                  /\ h.issues = <<>>
                  /\ h.metadataConsistency > HealthCheckConsistencyThreshold * 100
                  /\ Len(metadata) > 0 =>
                        Cardinality(ConsistentKeys) * 100
                            > HealthCheckConsistencyThreshold * Len(metadata)

\* a health check has just run on a store of two entries, one of which has lost its file
C26_Witness ==
    /\ ret.kind = "getHealthStatus"
    /\ Len(metadata) = 2
    /\ Cardinality(LostKeys) = 1
    /\ ~ret.health.healthy

\* the handler is initializeCache inside validateAndCleanMetadata: in its stat loop or in
\* the save that follows a repair
InValidate(p) ==
    /\ p.kind = "init"
    /\ p.pc \in {"val_stat", "save_unlink", "save_mkdir", "save_open", "save_write", "save_rename"}

\* C27: in the step that completes validateAndCleanMetadata, every entry left in the
\* Metadata Store has its payload file on disk with the length its dataSize records,
\* and when the repaired store differs from what the snapshot held, the snapshot on
\* disk has become the serialization of the repaired store.
C27_ValidateRepairs ==
    [][\A s \in Slots :
          (InValidate(procs[s]) /\ \A x \in Slots : ~InValidate(procs'[x])) =>
              /\ \A i \in 1 .. Len(metadata') :
                    /\ files'[metadata'[i].key] # NoPayload
                    /\ objs'[metadata'[i].obj].dataSize = ByteLength(files'[metadata'[i].key])
              /\ SerializeMetadata(metadata', objs') # ParseMetadata(snapshot)
                    => snapshot' = SnapshotOf(metadata', objs')]_vars

\* initializeCache has just returned after a validation that dropped the entry of one
\* key, whose file was gone, and corrected the size of the other
C27_Witness ==
    /\ ret.kind = "init"
    /\ snapshot = SnapshotOf(metadata, objs)
    /\ \E k \in SeqKeys : expected[k] # NoPayload /\ ~Has(metadata, k) /\ files[k] = NoPayload
    /\ \E k \in SeqKeys :
          /\ Has(metadata, k)
          /\ ByteLength(expected[k]) # objs[RefOf(metadata, k)].dataSize
          /\ ByteLength(files[k]) = objs[RefOf(metadata, k)].dataSize

\* the sets of key k that have written their file and are about to update the metadata
Committing(ps, k) == {s \in Slots : ps[s].kind = "set" /\ ps[s].pc = "set_commit" /\ ps[s].key = k}

\* C25: while an entry stays in the Metadata Store without being replaced (by the
\* metadata update of a set, or by a get that puts back an object it held from before),
\* its accessCount goes up by exactly one, and its lastAccessed becomes the present
\* time, in each step in which a get of its key returns its payload, interleaved gets
\* included, and its accessCount is left as it is by every other step.
C25_AccessCountCounts ==
    [][\A k \in Keys :
          (/\ Has(metadata, k)
           /\ Has(metadata', k)
           /\ Cardinality(Committing(procs', k)) >= Cardinality(Committing(procs, k))
           /\ ~ret'.stale) =>
              LET old == objs[RefOf(metadata, k)]
                  new == objs'[RefOf(metadata', k)]
              IN  IF ret'.kind = "get" /\ ret'.ok /\ ret'.key = k
                  THEN new.accessCount = old.accessCount + 1 /\ new.lastAccessed = now
                  ELSE new.accessCount = old.accessCount]_vars

\* two gets that were in flight together have both returned the payload of an entry,
\* which now counts more reads than one caller alone is allowed to make
C25_Witness ==
    /\ ret.kind = "get"
    /\ ret.ok
    /\ ~ret.stale
    /\ Has(metadata, ret.key)
    /\ objs[RefOf(metadata, ret.key)].accessCount > MaxAccessCount

\* C28: with sets of different keys interleaved, the sum of dataSize over the Metadata
\* Store is at most the configured maximum whenever a set has just returned true, and
\* so once every set has returned.
C28_InterleavedSetsWithinLimit ==
    (ret.kind = "set" /\ ret.ok) => SumSizes(metadata, objs) <= maxSizeBytes

\* C29: when the interleaved sets of one key have all returned, the Metadata Store holds
\* exactly one entry for the key, the one written by the metadata update that ran last;
\* its dataSize is the length of the file on disk, and the key is in the index buckets
\* of that entry and in no other.
C29_LastSetWins ==
    (Quiescent /\ ret.kind = "set" /\ ret.ok) =>
        LET k == ret.key
            o == objs[RefOf(metadata, k)]
        IN  /\ Len(metadata) = 1
            /\ Has(metadata, k)
            /\ o.dataSize = ByteLength(expected[k])
            /\ o.dataSize = ByteLength(files[k])
            /\ \A b \in DOMAIN sizeIndex : k \in sizeIndex[b] <=> b = o.dataSize
            /\ \A b \in DOMAIN dateIndex : k \in dateIndex[b] <=> b = DateKey(o.createdAt)
            /\ \A b \in DOMAIN accessCountIndex :
                  k \in accessCountIndex[b] <=> b = o.accessCount
            /\ \A b \in DOMAIN contentHashIndex :
                  k \in contentHashIndex[b] <=> b = contentHashCache[k]

\* C30: a get whose entry was replaced or removed while it was suspended on its read
\* leaves the Metadata Store as it finds it: it neither puts the object it held in the
\* place of the newer entry nor puts the removed entry back.
C30_GetRestoresNothing ==
    [][(ret'.kind = "get" /\ ret'.stale) =>
        /\ Has(metadata', ret'.key) <=> Has(metadata, ret'.key)
        /\ Has(metadata, ret'.key) =>
              objs'[RefOf(metadata', ret'.key)] = objs[RefOf(metadata, ret'.key)]]_vars

\* ------------------------------------------------------------ C31 .. C40
\* the pending batched-save timer: the armed timer that the handle id refers to
PendingTimer(a, id) == {x \in a : x.id = id}

\* C31: a save request that arrives while a batched-save timer is pending leaves that
\* timer due when it was: in a step before and after which a timer is pending, the due
\* time of the pending timer does not change, so the write of the batch comes no later
\* than the delay after its first request.
C31_TimerNotPostponed ==
    [][\A x \in PendingTimer(armed, metadataSaveTimer),
          y \in PendingTimer(armed', metadataSaveTimer') : y.due = x.due]_vars

\* the keys of the entries the snapshot file holds
SnapshotKeys == {ParseMetadata(snapshot)[i][1] : i \in 1 .. Len(ParseMetadata(snapshot))}

\* C32: a key that has been removed from the Metadata Store and is still in the
\* snapshot leaves the snapshot in the end, unless it is stored again: the removal is
\* followed by a scheduled save, with no call of destroy.
C32_RemovalReachesSnapshot ==
    \A k \in SaveKeys :
        (~Has(metadata, k) /\ k \in SnapshotKeys) ~> (Has(metadata, k) \/ k \notin SnapshotKeys)

\* the slots whose continuation is inside saveMetadata
SavesInFlight(ps) == {s \in Slots : InSave(ps[s])}

\* C33: once a save of the metadata has completed and no other save is in flight, no
\* file metadata.json.tmp.<timestamp> is left in the cache directory: a step of a live
\* process after which fewer saves are in flight, and none is, leaves every temp file absent
C33_NoTempFileAfterSave ==
    [][(/\ Cardinality(SavesInFlight(procs')) < Cardinality(SavesInFlight(procs))
        /\ SavesInFlight(procs') = {}
        /\ ~crashed')
       => \A n \in DOMAIN tmpFiles' : tmpFiles'[n] = Absent]_vars

\* C34: when saves overlap, an older serialization never overwrites a newer one: a save
\* that completes after a save which started later and read the Metadata Store later has
\* installed its serialization leaves the snapshot file as that later save made it
C34_OlderSaveNeverOverwrites == [][ret'.staleSave => snapshot' = snapshot]_vars

\* C35: after clearAll has returned the snapshot file is absent and stays absent until
\* the next set, also when a batched save was pending or a timer-fired save was in its
\* temp write or rename when clearAll was called: clearAll returns with the snapshot
\* absent, and while the instance runs with an empty Metadata Store no step brings an
\* absent snapshot back
C35_ClearAllLeavesNoSnapshot ==
    [][/\ ret'.kind = "clearAll" => snapshot' = Absent
       /\ (Running /\ Len(metadata) = 0 /\ snapshot = Absent /\ Running' /\ Len(metadata') = 0)
             => snapshot' = Absent]_vars

\* C36: every key that findKeyByValue(p) or findAllKeysByValue(p) returns names an entry
\* that is in the Metadata Store, is not expired and whose payload file holds p
C36_FindSound ==
    ret.kind \in {"findKey", "findAll"} =>
        \A k \in ret.keys : Has(metadata, k) /\ ~ExpiredNow(k) /\ files[k] = ret.data

\* C37: when findKeyByValue or findAllKeysByValue returns, every key whose content digest
\* has been computed is in the content-hash index under its own digest, whether or not
\* the digest is the searched one
C37_ScanIndexesEveryDigest ==
    ret.kind \in {"findKey", "findAll"} =>
        \A k \in Keys : contentHashCache[k] # NoHash
                            => k \in IndexGet(contentHashIndex, contentHashCache[k])

\* C38: when set has just returned true for a payload that fits the maximum cache size by
\* itself, the entry it wrote is in the Metadata Store and its payload file holds the
\* payload, so that a get of the key returns it
C38_SetKeepsOwnEntry ==
    (ret.kind = "set" /\ ret.ok /\ ByteLength(ret.data) <= maxSizeBytes) =>
        /\ Has(metadata, ret.key)
        /\ objs[RefOf(metadata, ret.key)].dataSize = ByteLength(ret.data)
        /\ files[ret.key] = ret.data

\* the continuation s of validateAndCleanMetadata takes its next step, the stat of the
\* file of the entry after its cursor, and that file exists
StatStep(s) ==
    /\ procs[s].kind = "init" /\ procs[s].pc = "val_stat"
    /\ procs' # procs
    /\ procs[s].cursor < Len(metadata)
    /\ files[metadata[procs[s].cursor + 1].key] # NoPayload

StatKey(s) == metadata[procs[s].cursor + 1].key

\* the entry of k has createdAt and lastAccessed at the creation time of its file / has
\* them as they were
Overwritten(k) ==
    Has(metadata', k) =>
        /\ objs'[RefOf(metadata', k)].createdAt = birthtime[k]
        /\ objs'[RefOf(metadata', k)].lastAccessed = birthtime[k]

Untouched(k) ==
    Has(metadata', k) =>
        /\ objs'[RefOf(metadata', k)].createdAt = objs[RefOf(metadata, k)].createdAt
        /\ objs'[RefOf(metadata', k)].lastAccessed = objs[RefOf(metadata, k)].lastAccessed

\* C39 as stated: validate-and-clean overwrites createdAt and lastAccessed of an entry
\* with the creation time of its file exactly when that time precedes the entry's
\* createdAt, and leaves them otherwise
C39_OlderFileOverwrites ==
    [][\A s \in Slots : StatStep(s) =>
          IF birthtime[StatKey(s)] < objs[RefOf(metadata, StatKey(s))].createdAt
          THEN Overwritten(StatKey(s)) ELSE Untouched(StatKey(s))]_vars

\* C39 amended: validate-and-clean overwrites createdAt and lastAccessed of an entry
\* with the creation time of its file exactly when the file was created after the
\* entry's createdAt, and leaves them otherwise
C39_NewerFileOverwrites ==
    [][\A s \in Slots : StatStep(s) =>
          IF birthtime[StatKey(s)] > objs[RefOf(metadata, StatKey(s))].createdAt
          THEN Overwritten(StatKey(s)) ELSE Untouched(StatKey(s))]_vars

\* a validation in progress has counted one correction for an entry whose file was
\* created after the createdAt the snapshot still records: the entry now carries the
\* file's creation time
C39_Witness ==
    /\ \E s \in Slots : procs[s].kind = "init" /\ procs[s].correctedEntries = 1
    /\ Has(metadata, "k1")
    /\ objs[RefOf(metadata, "k1")].createdAt = birthtime["k1"]
    /\ objs[RefOf(metadata, "k1")].lastAccessed = birthtime["k1"]
    /\ objs[RefOf(metadata, "k1")].dataSize = ByteLength(files["k1"])
    /\ Len(ParseMetadata(snapshot)) = 1
    /\ ParseMetadata(snapshot)[1][2].createdAt < birthtime["k1"]

\* C40: the orphanedFiles count that getHealthStatus returns is the number of payload
\* files on disk that have no Metadata Store entry; an entry whose file is missing adds
\* nothing to it, and a cache whose entries all have their files reports 0
C40_OrphanedFilesCount ==
    ret.kind = "getHealthStatus" =>
        ret.health.orphanedFiles =
            Cardinality({k \in Keys : files[k] # NoPayload /\ ~Has(metadata, k)})

====
